---- MODULE Spec2Model ----
(***************************************************************************)
(* The browser renderer of the game-night leaderboard (the page script     *)
(* init and the functions it calls), as a state machine of one page load.  *)
(*                                                                         *)
(* A JavaScript string is a sequence of code points (x is 120, % is 37).   *)
(* An optional value (null or a value) is a set with at most one element.  *)
(***************************************************************************)
EXTENDS Integers, Sequences, FiniteSets, TLC

(***************************************************************************)
(* Bounds of the model.                                                    *)
(***************************************************************************)
\* the total number of characters of the four recognised query values
MaxSearchLen == 3
\* the number of rows (players, awards, results, cards) of a feed list
MaxRows == 2
\* the number of pairs of a guest-token file
MaxEntries == 2
\* the largest awardPreviewLimit renderEvents is called with on its own
MaxPreview == 2
\* the number of awards of an event
MaxAwards == 6
\* the number of plays of a feed with a long play list
MaxPlays == 4
\* the number of events of a feed with a long point log
MaxEvents == 6
\* the number of entries of a feed's playerActivity that differ in what they hold
MaxCards == 3
\* the number of results of a play whose results differ in placement and points
MaxResults == 3
\* the number of awards of the log a feed is rebuilt from
MaxLogged == 3
\* the number of plays of the play log
MaxLoggedPlays == 2
\* the number of commands of the helper that are run
MaxCommands == 4
\* the length of a registry key a link is written for
MaxKeyLen == 2

(***************************************************************************)
(* Characters and strings.                                                 *)
(***************************************************************************)
Char == [space |-> 32, bang |-> 33, percent |-> 37, plus |-> 43,
         replacement |-> 65533]

None == {}
Some(v) == {v}
The(opt) == CHOOSE v \in opt : TRUE

RECURSIVE SeqsUpTo(_, _)
SeqsUpTo(S, n) ==
  IF n = 0 THEN {<<>>}
  ELSE LET shorter == SeqsUpTo(S, n - 1)
       IN  shorter \cup {Append(s, c) : s \in {t \in shorter : Len(t) = n - 1}, c \in S}

\* the characters a query value is written with: x X % + 2 5 B
UrlChars == {120, 88, 37, 43, 50, 53, 66}

IsHexDigit(c) == c \in (48..57) \cup (65..70) \cup (97..102)

HexValue(c) ==
  IF c \in 48..57 THEN c - 48
  ELSE IF c \in 65..70 THEN c - 55
  ELSE c - 87

IsWhitespace(c) == c \in {9, 10, 11, 12, 13, 32, 160, 65279}

RECURSIVE TrimStart(_)
TrimStart(s) ==
  IF s # <<>> /\ IsWhitespace(Head(s)) THEN TrimStart(Tail(s)) ELSE s

RECURSIVE TrimEnd(_)
TrimEnd(s) ==
  IF s # <<>> /\ IsWhitespace(s[Len(s)]) THEN TrimEnd(SubSeq(s, 1, Len(s) - 1)) ELSE s

\* String.prototype.trim
Trim(s) == TrimEnd(TrimStart(s))

\* raw.replace(/\+/g, " ")
PlusToSpace(s) == [i \in 1..Len(s) |-> IF s[i] = Char.plus THEN Char.space ELSE s[i]]

(***************************************************************************)
(* URLSearchParams: a value is read as application/x-www-form-urlencoded:  *)
(* + is a space, %XX is a byte, a % that starts no %XX stays, and a byte   *)
(* that is no UTF-8 text becomes U+FFFD.  UrlChars has no hex digit C..F,  *)
(* so no lead byte of a multi-byte sequence can be written: a byte from    *)
(* 0x80 on is a stray continuation byte.                                   *)
(***************************************************************************)
RECURSIVE PercentDecodeLossy(_)
PercentDecodeLossy(s) ==
  IF s = <<>> THEN <<>>
  ELSE IF Head(s) = Char.percent /\ Len(s) >= 3 /\ IsHexDigit(s[2]) /\ IsHexDigit(s[3])
       THEN LET byte == 16 * HexValue(s[2]) + HexValue(s[3])
            IN  <<IF byte < 128 THEN byte ELSE Char.replacement>>
                  \o PercentDecodeLossy(SubSeq(s, 4, Len(s)))
       ELSE <<Head(s)>> \o PercentDecodeLossy(Tail(s))

FormDecode(raw) == PercentDecodeLossy(PlusToSpace(raw))

(***************************************************************************)
(* decodeURIComponent: %XX is a byte of UTF-8 text; a % that starts no     *)
(* %XX, or a byte that is no UTF-8 text, throws URIError.                  *)
(***************************************************************************)
RECURSIVE decodeURIComponent(_)
decodeURIComponent(s) ==
  IF s = <<>> THEN [threw |-> FALSE, value |-> <<>>]
  ELSE IF Head(s) # Char.percent
       THEN LET rest == decodeURIComponent(Tail(s))
            IN  [threw |-> rest.threw, value |-> <<Head(s)>> \o rest.value]
       ELSE IF Len(s) >= 3 /\ IsHexDigit(s[2]) /\ IsHexDigit(s[3])
                 /\ 16 * HexValue(s[2]) + HexValue(s[3]) < 128
            THEN LET rest == decodeURIComponent(SubSeq(s, 4, Len(s)))
                 IN  [threw |-> rest.threw,
                      value |-> <<16 * HexValue(s[2]) + HexValue(s[3])>> \o rest.value]
            ELSE [threw |-> TRUE, value |-> <<>>]

(***************************************************************************)
(* The query string: for each recognised parameter name, the raw text of   *)
(* its first value in window.location.search, or nothing.                  *)
(***************************************************************************)
\* params.get(name): null when the parameter is absent
ParamsGet(search, name) ==
  IF search[name] = None THEN None ELSE Some(FormDecode(The(search[name])))

\* a ?? b
Coalesce(a, b) == IF a # None THEN a ELSE b

\* params.get("guest") ?? params.get("token") ?? params.get("code") ?? params.get("ticket")
FirstParam(search) ==
  Coalesce(ParamsGet(search, "guest"),
           Coalesce(ParamsGet(search, "token"),
                    Coalesce(ParamsGet(search, "code"), ParamsGet(search, "ticket"))))

\* the result of getGuestTokenFromUrl: it throws, or returns null or a token
getGuestTokenFromUrl(search) ==
  LET raw == FirstParam(search)
  IN  IF raw = None \/ The(raw) = <<>>
      THEN [threw |-> FALSE, token |-> None]
      ELSE LET d == decodeURIComponent(PlusToSpace(The(raw)))
           IN  IF d.threw THEN [threw |-> TRUE, token |-> None]
               ELSE IF Trim(d.value) = <<>> THEN [threw |-> FALSE, token |-> None]
               ELSE [threw |-> FALSE, token |-> Some(Trim(d.value))]

(***************************************************************************)
(* The guest-token file as fetchGuestTokens returns it: the JSON value     *)
(* null, an array of {token, name} objects, a mapping token -> name, or a  *)
(* mapping wrapped as {tokens: {...}}.  entries lists the file's pairs in  *)
(* the order they are written; the keys of a mapping are distinct.         *)
(***************************************************************************)
TokenFile(shape, entries) == [shape |-> shape, entries |-> entries]

\* map[key] = value on a plain object
JsPut(map, key, value) ==
  [k \in DOMAIN map \cup {key} |-> IF k = key THEN value ELSE map[k]]

\* a string as a condition: the empty string is falsy
Truthy(s) == s # <<>>

RECURSIVE ReduceArray(_, _)
ReduceArray(entries, map) ==
  IF entries = <<>> THEN map
  ELSE LET e == Head(entries)
       IN  ReduceArray(Tail(entries),
                       IF Truthy(e.token) /\ Truthy(e.name)
                       THEN JsPut(map, e.token, e.name)
                       ELSE map)

RECURSIVE ReduceMapping(_, _)
ReduceMapping(entries, map) ==
  IF entries = <<>> THEN map
  ELSE LET e == Head(entries)
       IN  ReduceMapping(Tail(entries),
                         IF Truthy(Trim(e.name))
                         THEN JsPut(map, e.token, Trim(e.name))
                         ELSE map)

normalizeGuestTokens(raw) ==
  CASE raw.shape = "array" -> ReduceArray(raw.entries, <<>>)
    [] raw.shape \in {"mapping", "wrapped"} -> ReduceMapping(raw.entries, <<>>)
    [] OTHER -> <<>>

(***************************************************************************)
(* tokens[token] on the plain object normalizeGuestTokens builds: an own   *)
(* property, else a member inherited from Object.prototype, else           *)
(* undefined.  An inherited member is a function or an object, which is    *)
(* truthy; it stands here as the text a template literal and String()      *)
(* give for it.                                                            *)
(***************************************************************************)
Word == [constructor |-> <<99, 111, 110, 115, 116, 114, 117, 99, 116, 111, 114>>,
         toString |-> <<116, 111, 83, 116, 114, 105, 110, 103>>,
         valueOf |-> <<118, 97, 108, 117, 101, 79, 102>>,
         proto |-> <<95, 95, 112, 114, 111, 116, 111, 95, 95>>,
         Object |-> <<79, 98, 106, 101, 99, 116>>,
         function |-> <<102, 117, 110, 99, 116, 105, 111, 110, 32>>,
         nativeBody |-> <<40, 41, 32, 123, 32, 91, 110, 97, 116, 105, 118, 101, 32,
                          99, 111, 100, 101, 93, 32, 125>>,
         objectObject |-> <<91, 111, 98, 106, 101, 99, 116, 32, 79, 98, 106, 101,
                            99, 116, 93>>,
         avatarAlt |-> <<39, 115, 32, 97, 118, 97, 116, 97, 114>>,
         welcome |-> <<87, 101, 108, 99, 111, 109, 101, 32, 116, 111, 32, 116, 104,
                       101, 32, 112, 97, 114, 116, 121, 44, 32>>]

ObjectPrototypeKeys == {Word.constructor, Word.toString, Word.valueOf, Word.proto}

InheritedText(key) ==
  IF key = Word.proto THEN Word.objectObject
  ELSE Word.function \o (IF key = Word.constructor THEN Word.Object ELSE key)
         \o Word.nativeBody

JsGet(map, key) ==
  IF key \in DOMAIN map THEN Some(map[key])
  ELSE IF key \in ObjectPrototypeKeys THEN Some(InheritedText(key))
  ELSE None

(***************************************************************************)
(* renderGreeting.  greeting is the #guest-greeting element: hidden and    *)
(* textContent.  The result is what the call returns (null or the name),   *)
(* or that the call threw.                                                 *)
(***************************************************************************)
HiddenGreeting == [hidden |-> TRUE, text |-> <<>>]

WelcomeText(name) == Word.welcome \o name \o <<Char.bang>>

renderGreeting(tokens, url, elements, greetingEl) ==
  IF "guest-greeting" \notin elements
  THEN [threw |-> FALSE, greeting |-> greetingEl, name |-> None]
  ELSE LET t == getGuestTokenFromUrl(url)
       IN  IF t.threw THEN [threw |-> TRUE, greeting |-> greetingEl, name |-> None]
           ELSE IF t.token = None
           THEN [threw |-> FALSE, greeting |-> HiddenGreeting, name |-> None]
           ELSE LET guestName == JsGet(tokens, The(t.token))
                IN  IF guestName = None \/ ~Truthy(The(guestName))
                    THEN [threw |-> FALSE, greeting |-> HiddenGreeting, name |-> None]
                    ELSE [threw |-> FALSE,
                          greeting |-> [hidden |-> FALSE,
                                        text |-> WelcomeText(The(guestName))],
                          name |-> guestName]

(***************************************************************************)
(* normalizeName: NFKD, combining marks U+0300..U+036F removed, lower      *)
(* case, trimmed.  Nfkd lists the decompositions of the code points the    *)
(* model writes names with; every other one of them is its own NFKD form.  *)
(***************************************************************************)
Nfkd(c) ==
  CASE c = 233 -> <<101, 769>>
    [] c = 201 -> <<69, 769>>
    [] c = 160 -> <<32>>
    [] OTHER -> <<c>>

RECURSIVE Normalize(_)
Normalize(s) == IF s = <<>> THEN <<>> ELSE Nfkd(Head(s)) \o Normalize(Tail(s))

IsCombiningMark(c) == c \in 768..879

RECURSIVE StripMarks(_)
StripMarks(s) ==
  IF s = <<>> THEN <<>>
  ELSE IF IsCombiningMark(Head(s)) THEN StripMarks(Tail(s))
  ELSE <<Head(s)>> \o StripMarks(Tail(s))

LowerChar(c) == IF c \in 65..90 \/ (c \in 192..222 /\ c # 215) THEN c + 32 ELSE c

toLowerCase(s) == [i \in 1..Len(s) |-> LowerChar(s[i])]

normalizeName(value) == Trim(toLowerCase(StripMarks(Normalize(value))))

\* highlightedName && normalizeName(player) === normalizeName(highlightedName)
IsHighlighted(player, highlightedName) ==
  /\ highlightedName # None
  /\ Truthy(The(highlightedName))
  /\ normalizeName(player) = normalizeName(The(highlightedName))

(***************************************************************************)
(* Avatars.  getAvatarBases gives the file names an avatar is looked for   *)
(* under; applyAvatar points the image at the first candidate and         *)
(* registers onError, which moves it to the next one.  A candidate         *)
(* `./avatars/${base}.${ext}` stands as the pair of its base and its       *)
(* extension.  A player name is a string, or nothing (undefined).          *)
(***************************************************************************)
HexDigit(n) == IF n < 10 THEN 48 + n ELSE 55 + n

PercentByte(b) == <<Char.percent, HexDigit(b \div 16), HexDigit(b % 16)>>

\* the UTF-8 bytes of a code point
Utf8(c) ==
  IF c < 128 THEN <<c>>
  ELSE IF c < 2048 THEN <<192 + (c \div 64), 128 + (c % 64)>>
  ELSE IF c < 65536 THEN <<224 + (c \div 4096), 128 + ((c \div 64) % 64), 128 + (c % 64)>>
  ELSE <<240 + (c \div 262144), 128 + ((c \div 4096) % 64), 128 + ((c \div 64) % 64),
         128 + (c % 64)>>

\* A-Z a-z 0-9 - _ . ! ~ * ' ( )
IsUnreserved(c) ==
  c \in (65..90) \cup (97..122) \cup (48..57) \cup {45, 95, 46, 33, 126, 42, 39, 40, 41}

RECURSIVE PercentBytes(_)
PercentBytes(bytes) ==
  IF bytes = <<>> THEN <<>> ELSE PercentByte(Head(bytes)) \o PercentBytes(Tail(bytes))

RECURSIVE encodeURIComponent(_)
encodeURIComponent(s) ==
  IF s = <<>> THEN <<>>
  ELSE (IF IsUnreserved(Head(s)) THEN <<Head(s)>> ELSE PercentBytes(Utf8(Head(s))))
         \o encodeURIComponent(Tail(s))

\* s.replace(/\s+/g, "_")
RECURSIVE Underscore(_)
Underscore(s) ==
  IF s = <<>> THEN <<>>
  ELSE IF IsWhitespace(Head(s)) THEN <<95>> \o Underscore(TrimStart(s))
  ELSE <<Head(s)>> \o Underscore(Tail(s))

\* bases.forEach: empty bases and bases seen before, whatever the case, are left out
RECURSIVE Unique(_, _)
Unique(bases, seen) ==
  IF bases = <<>> THEN <<>>
  ELSE LET base == Head(bases)
           key == toLowerCase(base)
       IN  IF base = <<>> \/ key \in seen THEN Unique(Tail(bases), seen)
           ELSE <<base>> \o Unique(Tail(bases), seen \cup {key})

getAvatarBases(playerName) ==
  IF playerName = None \/ The(playerName) = <<>> THEN <<>>
  ELSE LET trimmed == Trim(The(playerName))
           encoded == encodeURIComponent(trimmed)
           underscored == Underscore(trimmed)
           ascii == Underscore(normalizeName(trimmed))
       IN  Unique(<<trimmed, encoded, underscored, ascii>>, {})

extensions == <<"png", "jpg", "jpeg", "webp">>

\* the loops nested the other way: each extension with every base
SourcesExtensionsOutermost(bases) ==
  [k \in 1..(4 * Len(bases)) |->
     [base |-> bases[((k - 1) % Len(bases)) + 1],
      ext |-> extensions[((k - 1) \div Len(bases)) + 1]]]

\* bases.forEach((base) => extensions.forEach((ext) => sources.push(...)))
RECURSIVE Sources(_)
Sources(bases) ==
  IF bases = <<>> THEN <<>>
  ELSE [e \in 1..Len(extensions) |-> [base |-> Head(bases), ext |-> extensions[e]]]
         \o Sources(Tail(bases))

(***************************************************************************)
(* An img element of the leaderboard row template and what applyAvatar     *)
(* keeps with it: its sources and index (the variables onError closes      *)
(* over), whether onError is registered, the load of the current src       *)
(* ("none" without a src, "loading", "loaded", "failed"), the requests the *)
(* element has issued and the error events it has received.                *)
(***************************************************************************)
TemplateImg(present, wrapper) ==
  [present |-> present, wrapper |-> wrapper, hidden |-> FALSE, wrapperHidden |-> FALSE,
   src |-> None, alt |-> None, handler |-> FALSE, sources |-> <<>>, index |-> 0,
   load |-> "none", requests |-> <<>>, errors |-> 0]

\* hiding without img.removeAttribute("src")
HideAvatarKeepsSrc(img) ==
  [img EXCEPT !.wrapperHidden = IF img.wrapper THEN TRUE ELSE @,
              !.hidden = TRUE, !.alt = Some(<<>>), !.load = "none"]

\* wrapper.hidden = ...; img.hidden = ...; img.removeAttribute("src"); img.alt = ""
HideAvatar(img) ==
  [img EXCEPT !.wrapperHidden = IF img.wrapper THEN TRUE ELSE @,
              !.hidden = TRUE, !.src = None, !.alt = Some(<<>>), !.load = "none"]

\* img.src = sources[index++]
NextSource(img) ==
  [img EXCEPT !.src = Some(img.sources[img.index + 1]), !.index = img.index + 1,
              !.load = "loading",
              !.requests = Append(img.requests, img.sources[img.index + 1])]

applyAvatar(img, playerName) ==
  IF ~img.present THEN img
  ELSE LET sources == Sources(getAvatarBases(playerName))
           fresh == [img EXCEPT !.handler = FALSE, !.sources = sources, !.index = 0]
       IN  IF sources = <<>> THEN HideAvatar(fresh)
           ELSE NextSource([fresh EXCEPT !.handler = TRUE,
                                         !.wrapperHidden = IF img.wrapper THEN FALSE ELSE @,
                                         !.hidden = FALSE,
                                         !.alt = Some(The(playerName) \o Word.avatarAlt)])

onError(img) ==
  IF img.index >= Len(img.sources) THEN [HideAvatar(img) EXCEPT !.handler = FALSE]
  ELSE NextSource(img)

(***************************************************************************)
(* The feed as fetchLeaderboard returns it.  A list field of the feed is   *)
(* an array, the JSON value null, or absent (undefined).                   *)
(***************************************************************************)
Arr(items) == [kind |-> "array", items |-> items]
JsonNull == [kind |-> "null", items |-> <<>>]
Absent == [kind |-> "absent", items |-> <<>>]

\* a || b for list fields: an array, even an empty one, is truthy
OrElse(a, b) == IF a.kind = "array" THEN a ELSE b

\* Array.prototype.slice(0, n)
Slice(s, n) == SubSeq(s, 1, IF n < Len(s) THEN (IF n < 0 THEN 0 ELSE n) ELSE Len(s))

\* the lists of the page, and the ones handleError writes to
ListIds == {"leaderboard-list", "recent-plays", "scoring-rules", "events-timeline",
            "player-activity", "all-plays-list", "all-events-list"}

ErrorItem(id) ==
  [kind |-> "error",
   text |-> CASE id = "leaderboard-list" ->
                   "We could not load the leaderboard right now. Refresh to try again or contact Lorenzo."
              [] id \in {"recent-plays", "all-plays-list"} -> "Could not load plays."
              [] id \in {"events-timeline", "all-events-list"} -> "Could not load point log."
              [] OTHER -> "Player activity unavailable."]

EmptyItem(message) == [kind |-> "empty", text |-> message]

\* the outcome of a render call: the lists after it, and whether it threw
Done(lists) == [threw |-> FALSE, dom |-> lists]
Threw(lists) == [threw |-> TRUE, dom |-> lists]

Put(lists, id, items) == [lists EXCEPT ![id] = items]

\* the rows show the rank where the points belong
renderLeaderboardRankAsPoints(players, highlightedName, labels, elements, lists) ==
  IF "leaderboard-list" \notin elements THEN Done(lists)
  ELSE IF players.kind = "null" THEN Threw(Put(lists, "leaderboard-list", <<>>))
  ELSE IF players.items = <<>>
  THEN Done(Put(lists, "leaderboard-list",
                <<EmptyItem("No scores yet. Check back after the next game night!")>>))
  ELSE Done(Put(lists, "leaderboard-list",
                [i \in 1..Len(players.items) |->
                   LET player == players.items[i]
                   IN  [kind |-> "player",
                        rank |-> player.rank,
                        player |-> player.player,
                        points |-> player.rank,
                        unit |-> IF player.points = 1 THEN labels.singular
                                 ELSE labels.plural,
                        avatar |-> applyAvatar(
                                     TemplateImg("player-avatar" \in elements,
                                                 "player-avatar-wrapper" \in elements),
                                     Some(player.player)),
                        highlight |-> IsHighlighted(player.player, highlightedName)]]))

renderLeaderboard(players, highlightedName, labels, elements, lists) ==
  IF "leaderboard-list" \notin elements THEN Done(lists)
  ELSE IF players.kind = "null" THEN Threw(Put(lists, "leaderboard-list", <<>>))
  ELSE IF players.items = <<>>
  THEN Done(Put(lists, "leaderboard-list",
                <<EmptyItem("No scores yet. Check back after the next game night!")>>))
  ELSE Done(Put(lists, "leaderboard-list",
                [i \in 1..Len(players.items) |->
                   LET player == players.items[i]
                   IN  [kind |-> "player",
                        rank |-> player.rank,
                        player |-> player.player,
                        points |-> player.points,
                        unit |-> IF player.points = 1 THEN labels.singular
                                 ELSE labels.plural,
                        avatar |-> applyAvatar(
                                     TemplateImg("player-avatar" \in elements,
                                                 "player-avatar-wrapper" \in elements),
                                     Some(player.player)),
                        highlight |-> IsHighlighted(player.player, highlightedName)]]))

renderScoringRules(rules, elements, lists) ==
  IF "scoring-rules" \notin elements THEN Done(lists)
  ELSE IF rules.kind = "null" THEN Threw(Put(lists, "scoring-rules", <<>>))
  ELSE IF rules.items = <<>>
  THEN Done(Put(lists, "scoring-rules",
                <<EmptyItem("No scoring rules set. Add some in config.json.")>>))
  ELSE Done(Put(lists, "scoring-rules",
                [i \in 1..Len(rules.items) |->
                   [kind |-> "rule", label |-> rules.items[i].label,
                    points |-> rules.items[i].points]]))

Max(a, b) == IF a > b THEN a ELSE b

\* the label of an event's expand button
ShowMore(hiddenCount) == [text |-> "Show more", count |-> hiddenCount]
HideAwards == [text |-> "Hide awards", count |-> 0]
NoLabel == [text |-> "", count |-> 0]

\* an event whose awards are collapsed from the one after the first hidden one
RenderEventOffByOne(event, highlightedName, awardPreviewLimit, allowExpand) ==
  IF event.awards = <<>>
  THEN [kind |-> "event", name |-> event.name, pending |-> TRUE, awards |-> <<>>,
        expandHidden |-> TRUE, expanded |-> FALSE, label |-> NoLabel]
  ELSE LET previewCount == IF allowExpand /\ awardPreviewLimit # None
                           THEN Max(0, The(awardPreviewLimit))
                           ELSE Len(event.awards)
           awards == [i \in 1..Len(event.awards) |->
                        [player |-> event.awards[i].player,
                         reason |-> event.awards[i].reason,
                         points |-> event.awards[i].points,
                         highlight |-> IsHighlighted(event.awards[i].player, highlightedName),
                         collapsible |-> allowExpand /\ i - 1 > previewCount,
                         collapsed |-> allowExpand /\ i - 1 > previewCount]]
           hiddenCount == Cardinality({i \in 1..Len(awards) : awards[i].collapsible})
       IN  [kind |-> "event", name |-> event.name, pending |-> FALSE, awards |-> awards,
            expandHidden |-> ~(allowExpand /\ hiddenCount > 0),
            expanded |-> FALSE,
            label |-> IF allowExpand /\ hiddenCount > 0 THEN ShowMore(hiddenCount)
                      ELSE NoLabel]

\* one event of renderEvents; limit and awardPreviewLimit are optional numbers.
\* collapsible marks the awards of collapsedItems, collapsed the class is-collapsed.
RenderEvent(event, highlightedName, awardPreviewLimit, allowExpand) ==
  IF event.awards = <<>>
  THEN [kind |-> "event", name |-> event.name, pending |-> TRUE, awards |-> <<>>,
        expandHidden |-> TRUE, expanded |-> FALSE, label |-> NoLabel]
  ELSE LET previewCount == IF allowExpand /\ awardPreviewLimit # None
                           THEN Max(0, The(awardPreviewLimit))
                           ELSE Len(event.awards)
           awards == [i \in 1..Len(event.awards) |->
                        [player |-> event.awards[i].player,
                         reason |-> event.awards[i].reason,
                         points |-> event.awards[i].points,
                         highlight |-> IsHighlighted(event.awards[i].player, highlightedName),
                         collapsible |-> allowExpand /\ i - 1 >= previewCount,
                         collapsed |-> allowExpand /\ i - 1 >= previewCount]]
           hiddenCount == Cardinality({i \in 1..Len(awards) : awards[i].collapsible})
       IN  [kind |-> "event", name |-> event.name, pending |-> FALSE, awards |-> awards,
            expandHidden |-> ~(allowExpand /\ hiddenCount > 0),
            expanded |-> FALSE,
            label |-> IF allowExpand /\ hiddenCount > 0 THEN ShowMore(hiddenCount)
                      ELSE NoLabel]

\* a click that sets is-collapsed on expanding and removes it on collapsing
ToggleExpandedInverted(row) ==
  [row EXCEPT !.expanded = ~row.expanded,
              !.awards = [i \in 1..Len(row.awards) |->
                            IF row.awards[i].collapsible
                            THEN [row.awards[i] EXCEPT !.collapsed = ~row.expanded]
                            ELSE row.awards[i]],
              !.label = IF row.expanded
                        THEN ShowMore(Cardinality({i \in 1..Len(row.awards) :
                                                     row.awards[i].collapsible}))
                        ELSE HideAwards]

\* a click on the expand button of an event: setExpanded(!expanded)
ToggleExpanded(row) ==
  [row EXCEPT !.expanded = ~row.expanded,
              !.awards = [i \in 1..Len(row.awards) |->
                            IF row.awards[i].collapsible
                            THEN [row.awards[i] EXCEPT !.collapsed = row.expanded]
                            ELSE row.awards[i]],
              !.label = IF row.expanded
                        THEN ShowMore(Cardinality({i \in 1..Len(row.awards) :
                                                     row.awards[i].collapsible}))
                        ELSE HideAwards]

renderEvents(events, highlightedName, options, elements, lists) ==
  IF options.containerSelector \notin elements THEN Done(lists)
  ELSE LET items == IF options.limit # None THEN Slice(events, The(options.limit))
                    ELSE events
       IN  IF items = <<>>
           THEN Done(Put(lists, options.containerSelector,
                         <<EmptyItem(options.emptyMessage)>>))
           ELSE Done(Put(lists, options.containerSelector,
                         [i \in 1..Len(items) |->
                            RenderEvent(items[i], highlightedName,
                                        options.awardPreviewLimit, options.allowExpand)]))

\* a label for the winner and the runner-up only
formatPlacementLabelNoThird(placement) ==
  CASE placement = 1 -> "1st place"
    [] placement = 2 -> "2nd place"
    [] OTHER -> "Participated"

formatPlacementLabel(placement) ==
  CASE placement = 1 -> "1st place"
    [] placement = 2 -> "2nd place"
    [] placement = 3 -> "3rd place"
    [] OTHER -> "Participated"

\* one play of renderPlays; points 0 stands for a result without points
RenderPlay(play, highlightedName) ==
  [kind |-> "play", game |-> play.game,
   meta |-> IF play.scored THEN "Ranked" ELSE "Unranked",
   pending |-> play.results = <<>>,
   results |-> [i \in 1..Len(play.results) |->
                  [player |-> play.results[i].player,
                   label |-> formatPlacementLabel(play.results[i].placement),
                   points |-> IF play.results[i].points # 0
                              THEN Some(play.results[i].points) ELSE None,
                   highlight |-> IsHighlighted(play.results[i].player, highlightedName)]]]

renderPlays(plays, highlightedName, options, elements, lists) ==
  IF options.containerSelector \notin elements THEN Done(lists)
  ELSE LET items == IF options.limit # None THEN Slice(plays, The(options.limit))
                    ELSE plays
       IN  IF items = <<>>
           THEN Done(Put(lists, options.containerSelector,
                         <<EmptyItem(options.emptyMessage)>>))
           ELSE Done(Put(lists, options.containerSelector,
                         [i \in 1..Len(items) |-> RenderPlay(items[i], highlightedName)]))

\* entry.totalPlays > 0 alone
IsMeaningfulPlaysOnly(entry) == entry.totalPlays > 0

\* entry.totalPlays > 0 || entry.games?.length
IsMeaningful(entry) == entry.totalPlays > 0 \/ entry.games # <<>>

\* activity.filter(...)
RECURSIVE FilterMeaningful(_)
FilterMeaningful(s) ==
  IF s = <<>> THEN <<>>
  ELSE IF IsMeaningful(Head(s)) THEN <<Head(s)>> \o FilterMeaningful(Tail(s))
  ELSE FilterMeaningful(Tail(s))

CardHighlightedExact(player, highlightedName) ==
  highlightedName # None /\ player = The(highlightedName)

\* the highlight test of an activity card
CardHighlighted(player, highlightedName) == IsHighlighted(player, highlightedName)

RenderCard(entry, highlightedName) ==
  [kind |-> "card", player |-> entry.player, totalPlays |-> entry.totalPlays,
   games |-> Slice(entry.games, 3),
   podiums |-> IF entry.podiums[1] + entry.podiums[2] + entry.podiums[3] > 0
               THEN Some(entry.podiums) ELSE None,
   highlight |-> CardHighlighted(entry.player, highlightedName)]

renderPlayerActivity(activity, highlightedName, elements, lists) ==
  IF "player-activity" \notin elements THEN Done(lists)
  ELSE IF activity.kind = "null" THEN Threw(Put(lists, "player-activity", <<>>))
  ELSE LET meaningful == FilterMeaningful(activity.items)
       IN  IF meaningful = <<>>
           THEN Done(Put(lists, "player-activity",
                         <<EmptyItem("Log plays to build up player activity stats.")>>))
           ELSE Done(Put(lists, "player-activity",
                         [i \in 1..Len(meaningful) |->
                            RenderCard(meaningful[i], highlightedName)]))

\* the lists handleError replaces by an error placeholder
HandledListsLeaderboardOnly == {"leaderboard-list"}

HandledLists == {"leaderboard-list", "recent-plays", "events-timeline",
                 "all-events-list", "all-plays-list", "player-activity"}

\* the placeholders are appended to what the lists hold
handleErrorAppends(elements, lists) ==
  [id \in ListIds |->
     IF id \in HandledLists /\ id \in elements
     THEN Append(lists[id], ErrorItem(id)) ELSE lists[id]]

handleError(elements, lists) ==
  [id \in ListIds |->
     IF id \in HandledLists /\ id \in elements THEN <<ErrorItem(id)>> ELSE lists[id]]

(***************************************************************************)
(* The navigation links init rewrites.  An href is its base target and the *)
(* number of times the page's query string was appended to it.             *)
(***************************************************************************)
NavIds == {"view-all-plays", "view-all-events", "switch-view", "back-to-leaderboard"}

StaticNav ==
  [id \in NavIds |->
     [base |-> IF id = "switch-view" THEN "./unranked.html" ELSE "./index.html",
      suffixes |-> 0, display |-> "static"]]

\* link.href = base, without searchSuffix
SetHrefNoSuffix(links, id, base, elements) ==
  IF id \in elements
  THEN [links EXCEPT ![id].base = base, ![id].suffixes = 0]
  ELSE links

\* link.href = `${base}${searchSuffix}` with a new base
SetHref(links, id, base, elements) ==
  IF id \in elements
  THEN [links EXCEPT ![id].base = base, ![id].suffixes = 1]
  ELSE links

\* link.href = `${link.getAttribute("href") || "./index.html"}${searchSuffix}`
AppendSuffix(links, id, elements) ==
  IF id \in elements
  THEN [links EXCEPT ![id].suffixes = links[id].suffixes + 1]
  ELSE links

SetDisplay(links, id, shown, elements) ==
  IF id \in elements
  THEN [links EXCEPT ![id].display = IF shown THEN "inline-flex" ELSE "none"]
  ELSE links

(***************************************************************************)
(* The body of init's second try block once the feed has arrived: the      *)
(* render calls in their order, stopping at the first one that throws.     *)
(***************************************************************************)
Then(outcome, Step(_)) == IF outcome.threw THEN outcome ELSE Step(outcome.dom)

\* the home view with the limit of the point log
HomePlaysOptionsLimitFive ==
  [containerSelector |-> "recent-plays", limit |-> Some(5),
   emptyMessage |-> "No plays logged yet. Add one with the plays command."]

HomePlaysOptions ==
  [containerSelector |-> "recent-plays", limit |-> Some(3),
   emptyMessage |-> "No plays logged yet. Add one with the plays command."]

HomeEventsOptions ==
  [containerSelector |-> "events-timeline", limit |-> Some(5),
   emptyMessage |-> "No points logged yet. Awards will show here automatically.",
   awardPreviewLimit |-> Some(5), allowExpand |-> TRUE]

AllPlaysOptions ==
  [containerSelector |-> "all-plays-list", limit |-> None,
   emptyMessage |-> "No plays logged yet. Add one with the plays command."]

AllEventsOptions ==
  [containerSelector |-> "all-events-list", limit |-> None,
   emptyMessage |-> "No points logged yet. Awards will show here automatically.",
   awardPreviewLimit |-> None, allowExpand |-> FALSE]

AllPlaysOf(data) == OrElse(data.allPlays, OrElse(data.recentPlays, Arr(<<>>))).items
AllEventsOf(data) == OrElse(data.allEvents, OrElse(data.recentEvents, Arr(<<>>))).items
RecentEventsOf(data) == OrElse(data.recentEvents, Arr(<<>>)).items

PointsLabels(data) ==
  [singular |-> IF data.pointsLabelSingular # "" THEN data.pointsLabelSingular ELSE "pt",
   plural |-> IF data.pointsLabelPlural # "" THEN data.pointsLabelPlural ELSE "pts"]

\* hydrateMeta(data): destructuring the JSON value null throws
hydrateMeta(data, lists) == IF data.json = "null" THEN Threw(lists) ELSE Done(lists)

RenderFeed(data, highlightedName, elements, lists) ==
  Then(Then(Then(Then(Then(Then(Then(
    hydrateMeta(data, lists),
    LAMBDA d : renderLeaderboard(data.leaderboard, highlightedName, PointsLabels(data),
                                 elements, d)),
    LAMBDA d : renderPlays(AllPlaysOf(data), highlightedName, HomePlaysOptions,
                           elements, d)),
    LAMBDA d : renderScoringRules(data.scoringRules, elements, d)),
    LAMBDA d : renderEvents(RecentEventsOf(data), highlightedName, HomeEventsOptions,
                            elements, d)),
    LAMBDA d : renderPlayerActivity(data.playerActivity, highlightedName, elements, d)),
    LAMBDA d : renderPlays(AllPlaysOf(data), highlightedName, AllPlaysOptions,
                           elements, d)),
    LAMBDA d : renderEvents(AllEventsOf(data), highlightedName, AllEventsOptions,
                            elements, d))

\* the links as init leaves them when no render call threw
RewriteNav(data, elements, links) ==
  LET unranked == data.mode = "unranked"
      n1 == SetHref(links, "view-all-plays",
                    IF unranked THEN "./plays-unranked.html" ELSE "./plays.html", elements)
      n2 == SetDisplay(n1, "view-all-plays", Len(AllPlaysOf(data)) > 3, elements)
      n3 == SetHref(n2, "view-all-events",
                    IF unranked THEN "./points-unranked.html" ELSE "./points.html", elements)
      n4 == SetDisplay(n3, "view-all-events",
                       Len(AllEventsOf(data)) > Len(RecentEventsOf(data)), elements)
      n5 == AppendSuffix(n4, "switch-view", elements)
      n6 == IF "all-plays-list" \in elements
            THEN AppendSuffix(n5, "back-to-leaderboard", elements) ELSE n5
  IN  IF "all-events-list" \in elements
      THEN AppendSuffix(n6, "back-to-leaderboard", elements) ELSE n6

\* an error of the try block propagates out of init
InitCatchNothing(outcome, elements) == [rejected |-> outcome.threw, dom |-> outcome.dom]

\* try { ... } catch (error) { handleError(error); }
InitCatch(outcome, elements) ==
  [rejected |-> FALSE,
   dom |-> IF outcome.threw THEN handleError(elements, outcome.dom) ELSE outcome.dom]

\* the requests init has issued when it first suspends
IssuedOnLoadBoth == {"tokens", "feed"}

IssuedOnLoad == {"tokens"}

(***************************************************************************)
(* The inputs of a page load: the query string, the elements the page      *)
(* holds, and the two files on the server.                                 *)
(***************************************************************************)
Name == [Jose |-> <<74, 111, 115, 233>>,      \* "José", precomposed
         jose |-> <<106, 111, 115, 101>>,     \* "jose"
         JOSE |-> <<74, 79, 83, 69, 769>>,    \* "JOSE" and a combining acute
         Sam |-> <<83, 97, 109>>,             \* "Sam"
         SamPadded |-> <<32, 83, 97, 109>>,   \* " Sam"
         blank |-> <<32>>,                    \* " "
         SamLee |-> <<83, 97, 109, 32, 76, 101, 101>>,        \* "Sam Lee"
         JoseLee |-> <<74, 111, 115, 233, 32, 32, 76, 101, 101>>,  \* "José  Lee"
         Jess |-> <<74, 101, 115, 115>>,      \* "Jess"
         empty |-> <<>>]

Token == [x |-> <<120>>, X |-> <<88>>]

NoSearch == [n \in {"guest", "token", "code", "ticket"} |-> None]

OptLen(o) == IF o = None THEN 0 ELSE Len(The(o))

\* nothing, or a raw value of at most n characters
RawOpts(n) == {None} \cup {Some(v) : v \in SeqsUpTo(UrlChars, n)}

\* ?guest=constructor and the like
WordSearches ==
  {[NoSearch EXCEPT ![n] = Some(w)] : n \in {"guest", "ticket"}, w \in ObjectPrototypeKeys}

CommonSearches == {NoSearch, [NoSearch EXCEPT !["guest"] = Some(Token.x)]}

HomePage == {"guest-greeting", "leaderboard-list", "recent-plays", "scoring-rules",
             "events-timeline", "player-activity", "view-all-plays", "view-all-events",
             "switch-view", "player-avatar", "player-avatar-wrapper"}
PlaysPage == {"guest-greeting", "all-plays-list", "back-to-leaderboard", "switch-view"}
PointsPage == {"guest-greeting", "all-events-list", "back-to-leaderboard", "switch-view"}

Pages == {base \ g : base \in {HomePage, PlaysPage, PointsPage},
                     g \in {{}, {"guest-greeting"}}}

\* a token file with two guests
TwoGuests ==
  TokenFile("mapping", <<[token |-> Token.x, name |-> Name.Sam],
                         [token |-> Token.X, name |-> Name.Jose]>>)

\* the token files that map the token x to one name
OneGuestFiles ==
  {TokenFile("mapping", <<[token |-> Token.x, name |-> n]>>) :
     n \in {Name.Jose, Name.jose, Name.JOSE, Name.Sam, Name.SamPadded}}

\* the token files of every shape with at most MaxEntries pairs
EntryPairs == [token : {Token.x, Token.X, <<>>},
               name : {Name.Sam, Name.SamPadded, Name.blank, <<>>}]

DistinctTokens(entries) ==
  \A i, j \in 1..Len(entries) : i # j => entries[i].token # entries[j].token

ShapedFiles ==
  {TokenFile("null", <<>>)}
    \cup {TokenFile("array", e) : e \in SeqsUpTo(EntryPairs, MaxEntries)}
    \cup {TokenFile(shape, e) : shape \in {"mapping", "wrapped"},
                                e \in {f \in SeqsUpTo(EntryPairs, MaxEntries) :
                                         DistinctTokens(f)}}

FeedPlayers == {Name.Jose, Name.Sam}

Feed(roster, bad) ==
  [json |-> "object", mode |-> "ranked",
   pointsLabelSingular |-> "", pointsLabelPlural |-> "",
   leaderboard |->
     IF bad = "leaderboard" THEN JsonNull
     ELSE Arr([i \in 1..Len(roster) |->
                 [rank |-> i, player |-> roster[i],
                  points |-> 2 * (Len(roster) - i) + 1]]),
   scoringRules |->
     IF bad = "scoringRules" THEN JsonNull
     ELSE Arr(<<[label |-> "Win a game", points |-> 5]>>),
   recentEvents |->
     Arr(IF roster = <<>> THEN <<>>
         ELSE <<[name |-> "Game Night",
                 awards |-> [i \in 1..Len(roster) |->
                               [player |-> roster[i], reason |-> "Win", points |-> 5]]]>>),
   allEvents |-> Absent,
   recentPlays |-> Absent,
   allPlays |->
     Arr(IF roster = <<>> THEN <<>>
         ELSE <<[game |-> "Heat", scored |-> TRUE,
                 results |-> [i \in 1..Len(roster) |->
                                [player |-> roster[i],
                                 placement |-> IF i <= 3 THEN i ELSE 0,
                                 points |-> IF i = 1 THEN 5 ELSE 0]]]>>),
   playerActivity |->
     IF bad = "playerActivity" THEN JsonNull
     ELSE Arr([i \in 1..Len(roster) |->
                 [player |-> roster[i], totalPlays |-> 1,
                  games |-> <<[game |-> "Heat", count |-> 1]>>,
                  podiums |-> IF i = 1 THEN <<1, 0, 0>> ELSE <<0, 0, 0>>]])]

NullFeed == [Feed(<<>>, "none") EXCEPT !.json = "null"]

UnrankedFeed == [Feed(<<Name.Jose, Name.Sam>>, "none") EXCEPT !.mode = "unranked"]

Feeds ==
  {NullFeed, UnrankedFeed} \cup {Feed(r, bad) : r \in SeqsUpTo(FeedPlayers, MaxRows),
                                  bad \in {"none", "leaderboard", "scoringRules",
                                           "playerActivity"}}

PlainFeed == Feed(<<Name.Jose, Name.Sam>>, "none")

EmptyLists == [id \in ListIds |-> <<>>]

VARIABLES
  search,          \* window.location.search
  page,            \* the ids of the elements the document holds
  tokensFile,      \* guest_tokens.json on the server
  feedFile,        \* the leaderboard feed on the server
  pc,              \* where init is
  tokensReq,       \* the request of fetchGuestTokens
  feedReq,         \* the request of fetchLeaderboard
  guestTokens,     \* init's guestTokens
  highlightedName, \* init's highlightedName
  greeting,        \* the #guest-greeting element
  dom,             \* the children of each list
  nav,             \* the navigation links
  call,            \* the arguments of a function that is called on its own
  store            \* the data files of the command-line helper and the feeds it publishes

vars == <<search, page, tokensFile, feedFile, pc, tokensReq, feedReq, guestTokens,
          highlightedName, greeting, dom, nav, call, store>>

\* what no step of the script writes to
env == <<search, page, tokensFile, feedFile, call, store>>

\* the data files are not looked at
NoStore == [fn |-> "none"]

\* init runs: no function is called on its own
NoCall == [fn |-> "init"]

Init ==
  /\ \/ /\ \/ \E a \in RawOpts(MaxSearchLen) :
                \E b \in RawOpts(MaxSearchLen - OptLen(a)) :
                  \E c \in RawOpts(MaxSearchLen - OptLen(a) - OptLen(b)) :
                    \E d \in RawOpts(MaxSearchLen - OptLen(a) - OptLen(b) - OptLen(c)) :
                      search = [guest |-> a, token |-> b, code |-> c, ticket |-> d]
           \/ search \in WordSearches
        /\ page = HomePage
        /\ tokensFile = TwoGuests
        /\ feedFile = PlainFeed
     \/ /\ search \in CommonSearches \cup {[NoSearch EXCEPT !["token"] = Some(Token.X)]}
        /\ page = HomePage
        /\ tokensFile \in ShapedFiles
        /\ feedFile = PlainFeed
     \/ /\ search \in CommonSearches
        /\ page \in Pages
        /\ tokensFile \in OneGuestFiles
        /\ feedFile \in Feeds
  /\ pc = "loading"
  /\ tokensReq = "idle"
  /\ feedReq = "idle"
  /\ guestTokens = <<>>
  /\ highlightedName = None
  /\ greeting = HiddenGreeting
  /\ dom = EmptyLists
  /\ nav = StaticNav
  /\ call = NoCall
  /\ store = NoStore

\* every request is issued as soon as init starts
IssueAtOnce(req, which) == "pending"

Issue(req, which) == IF which \in IssuedOnLoad THEN "pending" ELSE req

\* DOMContentLoaded: init runs up to its first await
DOMContentLoaded ==
  /\ pc = "loading"
  /\ pc' = "awaitTokens"
  /\ tokensReq' = Issue(tokensReq, "tokens")
  /\ feedReq' = Issue(feedReq, "feed")
  /\ UNCHANGED <<env, guestTokens, highlightedName, greeting, dom, nav>>

\* init from the settling of the token request to its next await
AfterTokens(tokens) ==
  LET g == renderGreeting(tokens, search, page, greeting)
  IN  /\ guestTokens' = tokens
      /\ greeting' = g.greeting
      /\ highlightedName' = g.name
      /\ IF g.threw
         THEN pc' = "rejected" /\ UNCHANGED feedReq
         ELSE pc' = "awaitFeed" /\ feedReq' = "pending"
      /\ UNCHANGED <<env, dom, nav>>

\* the token file arrives and parses
TokensFulfilled ==
  /\ pc = "awaitTokens"
  /\ tokensReq' = "fulfilled"
  /\ AfterTokens(normalizeGuestTokens(tokensFile))

\* the token request fails: network error, status not OK, or a body that is no JSON
TokensRejected ==
  /\ pc = "awaitTokens"
  /\ tokensReq' = "rejected"
  /\ AfterTokens(<<>>)

\* init from the settling of the feed request to its end
AfterFeed(outcome, links) ==
  LET caught == InitCatch(outcome, page)
  IN  /\ dom' = caught.dom
      /\ nav' = IF outcome.threw THEN nav ELSE links
      /\ pc' = IF caught.rejected THEN "rejected" ELSE "done"
      /\ UNCHANGED <<env, tokensReq, guestTokens, highlightedName, greeting>>

\* the feed arrives and parses
FeedFulfilled ==
  /\ pc = "awaitFeed"
  /\ feedReq' = "fulfilled"
  /\ AfterFeed(RenderFeed(feedFile, highlightedName, page, dom),
               RewriteNav(feedFile, page, nav))

\* the feed request fails: network error, status not OK, or a body that is no JSON
FeedRejected ==
  /\ pc = "awaitFeed"
  /\ feedReq' = "rejected"
  /\ AfterFeed(Threw(dom), nav)

Next ==
  \/ DOMContentLoaded
  \/ TokensFulfilled
  \/ TokensRejected
  \/ FeedFulfilled
  \/ FeedRejected

Spec == Init /\ [][Next]_vars

(***************************************************************************)
(* The page load with the load and error events of the avatar images of    *)
(* the leaderboard rows.  Whether a candidate file exists on the server is *)
(* the environment's choice at each request.                               *)
(***************************************************************************)
AvatarNames == {Name.empty, Name.blank, Name.Sam, Name.SamPadded, Name.Jose,
                Name.SamLee, Name.JoseLee}

AvatarFeeds == {Feed(<<n>>, "none") : n \in AvatarNames}
                 \cup {Feed(<<Name.SamPadded, Name.Jose>>, "none")}

AvatarPages == {HomePage, HomePage \ {"player-avatar-wrapper"},
                HomePage \ {"player-avatar"}}

AvatarInit ==
  /\ search = NoSearch
  /\ page \in AvatarPages
  /\ tokensFile = TwoGuests
  /\ feedFile \in AvatarFeeds
  /\ pc = "loading"
  /\ tokensReq = "idle"
  /\ feedReq = "idle"
  /\ guestTokens = <<>>
  /\ highlightedName = None
  /\ greeting = HiddenGreeting
  /\ dom = EmptyLists
  /\ nav = StaticNav
  /\ call = NoCall
  /\ store = NoStore

\* the rows of #leaderboard-list that hold an avatar image
AvatarRows ==
  {i \in 1..Len(dom["leaderboard-list"]) : dom["leaderboard-list"][i].kind = "player"}

SetAvatar(i, img) ==
  /\ dom' = [dom EXCEPT !["leaderboard-list"][i].avatar = img]
  /\ UNCHANGED <<env, pc, tokensReq, feedReq, guestTokens, highlightedName, greeting, nav>>

\* the request for the current src fails: the image's error event is dispatched
ImageError ==
  \E i \in AvatarRows :
    LET img == dom["leaderboard-list"][i].avatar
        counted == [img EXCEPT !.errors = img.errors + 1]
    IN  /\ img.load = "loading"
        /\ SetAvatar(i, IF img.handler THEN onError(counted)
                        ELSE [counted EXCEPT !.load = "failed"])

\* the request for the current src succeeds: no listener of the script runs
ImageLoad ==
  \E i \in AvatarRows :
    LET img == dom["leaderboard-list"][i].avatar
    IN  /\ img.load = "loading"
        /\ SetAvatar(i, [img EXCEPT !.load = "loaded"])

AvatarNext ==
  \/ DOMContentLoaded
  \/ TokensFulfilled
  \/ TokensRejected
  \/ FeedFulfilled
  \/ FeedRejected
  \/ ImageError
  \/ ImageLoad

AvatarSpec == AvatarInit /\ [][AvatarNext]_vars

(***************************************************************************)
(* renderEvents called on its own, with options init does not pass, and    *)
(* the clicks on the expand buttons it registers a listener for.           *)
(***************************************************************************)
AwardsOf(m) == [i \in 1..m |-> [player |-> Name.Sam, reason |-> "Win", points |-> i]]

EventWith(m) == [name |-> "Game Night", awards |-> AwardsOf(m)]

\* awardPreviewLimit: left out, or a number
PreviewLimits == {None} \cup {Some(n) : n \in (-1)..MaxPreview}

EventCalls ==
  {[fn |-> "renderEvents",
    events |-> [j \in 1..Len(counts) |-> EventWith(counts[j])],
    options |-> [containerSelector |-> "events-timeline", limit |-> None,
                 emptyMessage |-> "No points logged yet. Awards will show here automatically.",
                 awardPreviewLimit |-> n, allowExpand |-> a]] :
     counts \in SeqsUpTo(0..MaxAwards, 2), n \in PreviewLimits, a \in BOOLEAN}

EventsInit ==
  /\ search = NoSearch
  /\ page = HomePage
  /\ tokensFile = TwoGuests
  /\ feedFile = PlainFeed
  /\ pc = "loading"
  /\ tokensReq = "idle"
  /\ feedReq = "idle"
  /\ guestTokens = <<>>
  /\ highlightedName = None
  /\ greeting = HiddenGreeting
  /\ dom = EmptyLists
  /\ nav = StaticNav
  /\ call \in EventCalls
  /\ store = NoStore

\* renderEvents(events, highlightedName, options)
CallRenderEvents ==
  /\ pc = "loading"
  /\ call.fn = "renderEvents"
  /\ dom' = renderEvents(call.events, highlightedName, call.options, page, dom).dom
  /\ pc' = "done"
  /\ UNCHANGED <<env, tokensReq, feedReq, guestTokens, highlightedName, greeting, nav>>

\* the user clicks the expand button of an event that shows one
ExpandClick ==
  \E id \in {"events-timeline", "all-events-list"} :
    \E j \in 1..Len(dom[id]) :
      /\ dom[id][j].kind = "event"
      /\ ~dom[id][j].expandHidden
      /\ dom' = [dom EXCEPT ![id][j] = ToggleExpanded(dom[id][j])]
      /\ UNCHANGED <<env, pc, tokensReq, feedReq, guestTokens, highlightedName,
                     greeting, nav>>

EventsNext ==
  \/ CallRenderEvents
  \/ ExpandClick

EventsSpec == EventsInit /\ [][EventsNext]_vars

(***************************************************************************)
(* The page load with feeds whose play list, point log, player activity    *)
(* and play results vary in length and content, and the clicks on the      *)
(* expand buttons of the point log.                                        *)
(***************************************************************************)
Games == <<"Heat", "Azul", "Catan", "Uno", "Root", "Go", "Chess", "Dixit">>

Nights == <<"Night 1", "Night 2", "Night 3", "Night 4", "Night 5", "Night 6",
            "Night 7", "Night 8", "Night 9">>

\* the players of the entries of a list, by position
Roster == <<Name.Jose, Name.Sam, Name.SamLee, Name.jose, Name.JoseLee>>

\* the first n plays of a log, newest first
Plays(n) ==
  [k \in 1..n |->
     [game |-> Games[k], scored |-> TRUE,
      results |-> <<[player |-> Name.Sam, placement |-> 1, points |-> 5]>>]]

\* feeds that carry the play list as allPlays, as recentPlays, or as both
PlaysFeeds ==
  {[PlainFeed EXCEPT !.allPlays = Arr(Plays(n)), !.recentPlays = other] :
     n \in 0..MaxPlays, other \in {Absent, Arr(Plays(1))}}
    \cup {[PlainFeed EXCEPT !.allPlays = missing, !.recentPlays = Arr(Plays(n))] :
            n \in 0..MaxPlays, missing \in {Absent, JsonNull}}
    \cup {[PlainFeed EXCEPT !.allPlays = Absent, !.recentPlays = Absent]}

\* n events of m awards each, newest first
Events(n, m) == [j \in 1..n |-> [name |-> Nights[j], awards |-> AwardsOf(m)]]

EventsFeeds ==
  {[PlainFeed EXCEPT !.recentEvents = Arr(Events(n, m)),
                     !.allEvents = Arr(Events(n + 1, m))] :
     n \in 0..MaxEvents, m \in 0..MaxAwards}
    \cup UNION {{[PlainFeed EXCEPT !.recentEvents = Arr(Events(n, 1)), !.allEvents = all] :
                   all \in {Absent, JsonNull, Arr(Events(n, 1))}} : n \in 0..MaxEvents}
    \cup {[PlainFeed EXCEPT !.recentEvents = Absent, !.allEvents = Arr(Events(n, 1))] :
            n \in 0..MaxEvents}

\* what an entry of playerActivity may hold
ActivityShapes ==
  [totalPlays : {0, 2},
   games : {<<>>, [g \in 1..4 |-> [game |-> Games[g], count |-> g]]},
   podiums : {<<0, 0, 0>>, <<0, 1, 0>>}]

ActivityFeeds ==
  {[PlainFeed EXCEPT !.playerActivity =
      Arr([i \in 1..Len(shapes) |->
             [player |-> Roster[i], totalPlays |-> shapes[i].totalPlays,
              games |-> shapes[i].games, podiums |-> shapes[i].podiums]])] :
     shapes \in SeqsUpTo(ActivityShapes, MaxCards)}

\* what a result of a play may hold: placement 0 and points 0 stand for none
ResultShapes == [placement : 0..4, points : {0, 10}]

ResultsFeeds ==
  {[PlainFeed EXCEPT !.allPlays =
      Arr(<<[game |-> "Heat", scored |-> TRUE,
             results |-> [i \in 1..Len(shapes) |->
                            [player |-> Roster[i], placement |-> shapes[i].placement,
                             points |-> shapes[i].points]]]>>)] :
     shapes \in SeqsUpTo(ResultShapes, MaxResults)}

LogFeeds == PlaysFeeds \cup EventsFeeds \cup ActivityFeeds \cup ResultsFeeds

LogInit ==
  /\ search \in CommonSearches
  /\ page \in {HomePage, PlaysPage, PointsPage}
  /\ tokensFile = TwoGuests
  /\ feedFile \in LogFeeds
  /\ pc = "loading"
  /\ tokensReq = "idle"
  /\ feedReq = "idle"
  /\ guestTokens = <<>>
  /\ highlightedName = None
  /\ greeting = HiddenGreeting
  /\ dom = EmptyLists
  /\ nav = StaticNav
  /\ call = NoCall
  /\ store = NoStore

LogNext ==
  \/ DOMContentLoaded
  \/ TokensFulfilled
  \/ TokensRejected
  \/ FeedFulfilled
  \/ FeedRejected
  \/ ExpandClick

LogSpec == LogInit /\ [][LogNext]_vars

(***************************************************************************)
(* The aggregator of the rebuild command, which computes the leaderboard   *)
(* of a feed from the award log: one pass over the awards that adds each   *)
(* ranked award to its player's total and to the player's breakdown entry  *)
(* of the award's reason, then the players in descending order of total,   *)
(* equal totals by name, ranked 1..n.                                      *)
(***************************************************************************)
\* a name comes before another: code point by code point, a prefix first
RECURSIVE NameBefore(_, _)
NameBefore(a, b) ==
  IF b = <<>> THEN FALSE
  ELSE IF a = <<>> THEN TRUE
  ELSE IF Head(a) # Head(b) THEN Head(a) < Head(b)
  ELSE NameBefore(Tail(a), Tail(b))

\* the entry of the award's reason counts it but keeps the points of the first award
AddToBreakdownCountOnly(breakdown, award) ==
  IF \E i \in 1..Len(breakdown) : breakdown[i].reason = award.reason
  THEN [i \in 1..Len(breakdown) |->
          IF breakdown[i].reason = award.reason
          THEN [breakdown[i] EXCEPT !.count = @ + 1]
          ELSE breakdown[i]]
  ELSE Append(breakdown, [reason |-> award.reason, count |-> 1, points |-> award.points])

\* the breakdown with one more award: the entry of its reason counts and sums it
AddToBreakdown(breakdown, award) ==
  IF \E i \in 1..Len(breakdown) : breakdown[i].reason = award.reason
  THEN [i \in 1..Len(breakdown) |->
          IF breakdown[i].reason = award.reason
          THEN [breakdown[i] EXCEPT !.count = @ + 1, !.points = @ + award.points]
          ELSE breakdown[i]]
  ELSE Append(breakdown, [reason |-> award.reason, count |-> 1, points |-> award.points])

\* the totals and breakdowns after the awards of one mode, in log order
RECURSIVE Tally(_, _, _)
Tally(awards, ranked, players) ==
  IF awards = <<>> THEN players
  ELSE LET award == Head(awards)
           known == {i \in 1..Len(players) : players[i].player = award.player}
           next ==
             IF award.ranked # ranked THEN players
             ELSE IF known = {}
             THEN Append(players, [player |-> award.player, points |-> award.points,
                                   breakdown |-> AddToBreakdown(<<>>, award)])
             ELSE [i \in 1..Len(players) |->
                     IF i \in known
                     THEN [players[i] EXCEPT !.points = @ + award.points,
                                             !.breakdown = AddToBreakdown(@, award)]
                     ELSE players[i]]
       IN  Tally(Tail(awards), ranked, next)

\* a comes before b on the leaderboard
RanksBefore(a, b) ==
  a.points > b.points \/ (a.points = b.points /\ NameBefore(a.player, b.player))

\* the players in leaderboard order
RECURSIVE SortPlayers(_)
SortPlayers(players) ==
  IF players = <<>> THEN <<>>
  ELSE LET first == CHOOSE i \in 1..Len(players) :
                      \A j \in 1..Len(players) :
                        j # i => RanksBefore(players[i], players[j])
       IN  <<players[first]>>
             \o SortPlayers([k \in 1..(Len(players) - 1) |->
                               IF k < first THEN players[k] ELSE players[k + 1]])

BuildLeaderboard(awards, ranked) ==
  LET sorted == SortPlayers(Tally(awards, ranked, <<>>))
  IN  [i \in 1..Len(sorted) |->
         [rank |-> i, player |-> sorted[i].player, points |-> sorted[i].points,
          breakdown |-> sorted[i].breakdown]]

\* the awards of a log: ranked ones of every kind, and two unranked ones
LoggedAwards ==
  [player : {Name.Jess, Name.Sam, Name.Jose}, points : {3, 5}, reason : {"Win", "Host"},
   ranked : {TRUE}]
    \cup [player : {Name.Jess, Name.Sam}, points : {5}, reason : {"Win"}, ranked : {FALSE}]

\* the feed before the first rebuild
UnbuiltFeed == Feed(<<>>, "none")

BuildInit ==
  /\ search = NoSearch
  /\ page = HomePage
  /\ tokensFile = TwoGuests
  /\ feedFile = UnbuiltFeed
  /\ pc = "unbuilt"
  /\ tokensReq = "idle"
  /\ feedReq = "idle"
  /\ guestTokens = <<>>
  /\ highlightedName = None
  /\ greeting = HiddenGreeting
  /\ dom = EmptyLists
  /\ nav = StaticNav
  /\ call \in {[fn |-> "rebuild", awards |-> a] : a \in SeqsUpTo(LoggedAwards, MaxLogged)}
  /\ store = NoStore

\* the rebuild command publishes the ranked feed; then the page is opened
Rebuild ==
  /\ pc = "unbuilt"
  /\ feedFile' = [feedFile EXCEPT !.leaderboard = Arr(BuildLeaderboard(call.awards, TRUE))]
  /\ pc' = "loading"
  /\ UNCHANGED <<search, page, tokensFile, call, store, tokensReq, feedReq, guestTokens,
                 highlightedName, greeting, dom, nav>>

BuildNext ==
  \/ Rebuild
  \/ DOMContentLoaded
  \/ TokensFulfilled
  \/ TokensRejected
  \/ FeedFulfilled
  \/ FeedRejected

BuildSpec == BuildInit /\ [][BuildNext]_vars

(***************************************************************************)
(* The commands of the helper that add an award or a play and rebuild the  *)
(* feeds.  Every command regenerates both published feeds from the data    *)
(* files: the ranked feed from the records flagged ranked, the unranked    *)
(* feed by the same algorithm from the others, each stamped lastUpdated.   *)
(* The clock is the number of commands run so far.                         *)
(***************************************************************************)
Reverse(s) == [i \in 1..Len(s) |-> s[Len(s) + 1 - i]]

\* the records of both modes
OfEitherMode(records, ranked) == records

\* the records of one mode
OfMode(records, ranked) == SelectSeq(records, LAMBDA r : r.ranked = ranked)

\* the names of the events of some awards, each once, in the order of first mention
RECURSIVE EventNames(_)
EventNames(awards) ==
  IF awards = <<>> THEN <<>>
  ELSE LET earlier == EventNames(SubSeq(awards, 1, Len(awards) - 1))
           name == awards[Len(awards)].event
       IN  IF \E i \in 1..Len(earlier) : earlier[i] = name THEN earlier
           ELSE Append(earlier, name)

\* the event timeline of some awards, most recent event first
Timeline(awards) ==
  LET names == Reverse(EventNames(awards))
  IN  [j \in 1..Len(names) |->
         [name |-> names[j],
          awards |-> SelectSeq(awards, LAMBDA a : a.event = names[j])]]

\* the feed of one mode
BuildFeed(awards, plays, ranked, now) ==
  [mode |-> IF ranked THEN "ranked" ELSE "unranked",
   lastUpdated |-> now,
   leaderboard |-> BuildLeaderboard(OfMode(awards, ranked), ranked),
   allEvents |-> Timeline(OfMode(awards, ranked)),
   allPlays |-> Reverse(OfMode(plays, ranked))]

\* the data files and the feeds regenerated from them at time now
Regenerated(awards, plays, now) ==
  [fn |-> "store", awards |-> awards, plays |-> plays, clock |-> now,
   ranked |-> BuildFeed(awards, plays, TRUE, now),
   unranked |-> BuildFeed(awards, plays, FALSE, now)]

\* the awards and plays a command may add
StoreAwards ==
  [player : {Name.Jess, Name.Sam}, points : {5}, reason : {"Win"},
   event : {"Night 1", "Night 2"}, ranked : BOOLEAN]

StorePlays ==
  [game : {"Heat"}, event : {"Night 1"}, ranked : BOOLEAN,
   results : {<<[player |-> Name.Jess, placement |-> 1, points |-> 5],
                [player |-> Name.Sam, placement |-> 0, points |-> 0]>>}]

\* the awards a play gives its placed players, flagged as the play is
AutoAwards(play) ==
  LET placed == SelectSeq(play.results, LAMBDA r : r.placement \in 1..3)
  IN  [i \in 1..Len(placed) |->
         [player |-> placed[i].player, points |-> placed[i].points,
          reason |-> formatPlacementLabel(placed[i].placement),
          event |-> play.event, ranked |-> play.ranked]]

StoreInit ==
  /\ search = NoSearch
  /\ page = HomePage
  /\ tokensFile = TwoGuests
  /\ feedFile = UnbuiltFeed
  /\ pc = "loading"
  /\ tokensReq = "idle"
  /\ feedReq = "idle"
  /\ guestTokens = <<>>
  /\ highlightedName = None
  /\ greeting = HiddenGreeting
  /\ dom = EmptyLists
  /\ nav = StaticNav
  /\ call = NoCall
  /\ store = Regenerated(<<>>, <<>>, 0)

RunCommand(awards, plays) ==
  /\ store.clock < MaxCommands
  /\ store' = Regenerated(awards, plays, store.clock + 1)
  /\ UNCHANGED <<search, page, tokensFile, feedFile, call, pc, tokensReq, feedReq,
                 guestTokens, highlightedName, greeting, dom, nav>>

\* award: one more award in the event log
AwardCommand ==
  \E award \in StoreAwards :
    /\ Len(store.awards) < MaxLogged
    /\ RunCommand(Append(store.awards, award), store.plays)

\* plays add: one more play, with or without the awards of its placements
PlayCommand ==
  \E play \in StorePlays, award \in BOOLEAN :
    /\ Len(store.plays) < MaxLoggedPlays
    /\ Len(store.awards) < MaxLogged
    /\ RunCommand(IF award THEN store.awards \o AutoAwards(play) ELSE store.awards,
                  Append(store.plays, play))

\* rebuild: the data files stay as they are
RebuildCommand == RunCommand(store.awards, store.plays)

StoreNext ==
  \/ AwardCommand
  \/ PlayCommand
  \/ RebuildCommand

StoreSpec == StoreInit /\ [][StoreNext]_vars

(***************************************************************************)
(* The render functions and handleError called on their own, any number of *)
(* times and in any order, on the lists of one page.  call.last holds, for *)
(* each list, what the last call that targets it writes into an empty       *)
(* list.                                                                    *)
(***************************************************************************)
Highlights == {None, Some(Name.Sam)}

LeaderboardArgs == {JsonNull, Arr(<<>>), PlainFeed.leaderboard}

RulesArgs == {JsonNull, Arr(<<>>), PlainFeed.scoringRules}

ActivityArgs == {JsonNull, Arr(<<>>), PlainFeed.playerActivity}

EventsArgs == {<<>>, Events(1, 1), Events(2, 3)}

PlaysArgs == {<<>>, Plays(1), Plays(4)}

RenderInit ==
  /\ search = NoSearch
  /\ page \in {HomePage, PlaysPage, PointsPage}
  /\ tokensFile = TwoGuests
  /\ feedFile = PlainFeed
  /\ pc = "loading"
  /\ tokensReq = "idle"
  /\ feedReq = "idle"
  /\ guestTokens = <<>>
  /\ highlightedName = None
  /\ greeting = HiddenGreeting
  /\ dom = EmptyLists
  /\ nav = StaticNav
  /\ call = [fn |-> "none", targets |-> {}, last |-> EmptyLists]
  /\ store = NoStore

\* one call: after is what it leaves of the lists of the page, fresh what it leaves of
\* empty lists
Invoke(fn, targets, after, fresh) ==
  /\ dom' = after
  /\ call' = [fn |-> fn, targets |-> targets \cap page,
              last |-> [id \in ListIds |->
                          IF id \in targets \cap page THEN fresh[id] ELSE call.last[id]]]
  /\ pc' = "done"
  /\ UNCHANGED <<search, page, tokensFile, feedFile, store, tokensReq, feedReq,
                 guestTokens, highlightedName, greeting, nav>>

CallRenderLeaderboard ==
  \E players \in LeaderboardArgs, name \in Highlights :
    Invoke("renderLeaderboard", {"leaderboard-list"},
           renderLeaderboard(players, name, PointsLabels(PlainFeed), page, dom).dom,
           renderLeaderboard(players, name, PointsLabels(PlainFeed), page, EmptyLists).dom)

CallRenderScoringRules ==
  \E rules \in RulesArgs :
    Invoke("renderScoringRules", {"scoring-rules"},
           renderScoringRules(rules, page, dom).dom,
           renderScoringRules(rules, page, EmptyLists).dom)

CallRenderEventsAgain ==
  \E events \in EventsArgs, name \in Highlights,
     options \in {HomeEventsOptions, AllEventsOptions} :
    Invoke("renderEvents", {options.containerSelector},
           renderEvents(events, name, options, page, dom).dom,
           renderEvents(events, name, options, page, EmptyLists).dom)

CallRenderPlays ==
  \E plays \in PlaysArgs, name \in Highlights,
     options \in {HomePlaysOptions, AllPlaysOptions} :
    Invoke("renderPlays", {options.containerSelector},
           renderPlays(plays, name, options, page, dom).dom,
           renderPlays(plays, name, options, page, EmptyLists).dom)

CallRenderPlayerActivity ==
  \E activity \in ActivityArgs, name \in Highlights :
    Invoke("renderPlayerActivity", {"player-activity"},
           renderPlayerActivity(activity, name, page, dom).dom,
           renderPlayerActivity(activity, name, page, EmptyLists).dom)

CallHandleError ==
  Invoke("handleError", HandledLists, handleError(page, dom), handleError(page, EmptyLists))

RenderNext ==
  \/ CallRenderLeaderboard
  \/ CallRenderScoringRules
  \/ CallRenderEventsAgain
  \/ CallRenderPlays
  \/ CallRenderPlayerActivity
  \/ CallHandleError

RenderSpec == RenderInit /\ [][RenderNext]_vars

(***************************************************************************)
(* The page load from a link written for a guest: the registry holds one   *)
(* key, and the link carries the key percent-encoded (encodeURIComponent)  *)
(* as the value of one of the four parameters.                             *)
(***************************************************************************)
\* the characters a key is written with: x + % 2 5 B
KeyChars == {120, 43, 37, 50, 53, 66}

LinkKeys == SeqsUpTo(KeyChars, MaxKeyLen) \ {<<>>}

LinkTo(k, param) == [NoSearch EXCEPT ![param] = Some(encodeURIComponent(k))]

LinkInit ==
  /\ \E k \in LinkKeys, param \in DOMAIN NoSearch :
       /\ search = LinkTo(k, param)
       /\ tokensFile = TokenFile("mapping", <<[token |-> k, name |-> Name.Sam]>>)
  /\ page = HomePage
  /\ feedFile = PlainFeed
  /\ pc = "loading"
  /\ tokensReq = "idle"
  /\ feedReq = "idle"
  /\ guestTokens = <<>>
  /\ highlightedName = None
  /\ greeting = HiddenGreeting
  /\ dom = EmptyLists
  /\ nav = StaticNav
  /\ call = NoCall
  /\ store = NoStore

LinkSpec == LinkInit /\ [][Next]_vars

(***************************************************************************)
(* Definitions the properties below are stated with.                       *)
(***************************************************************************)
\* renderGreeting has run on a page that holds #guest-greeting
GreetingRendered == pc \in {"awaitFeed", "done"} /\ "guest-greeting" \in page

\* the token of the URL, once decoded and trimmed
UrlToken == getGuestTokenFromUrl(search).token

\* the six lists that show an error placeholder
ErrorLists == {"leaderboard-list", "recent-plays", "events-timeline", "all-events-list",
               "all-plays-list", "player-activity"}

OnlyErrorPlaceholder(id) == Len(dom[id]) = 1 /\ dom[id][1].kind = "error"

HoldsError(id) == \E i \in 1..Len(dom[id]) : dom[id][i].kind = "error"

\* the feed arrived and init ran to its end
FeedRendered == pc = "done" /\ feedReq = "fulfilled"

\* a call of the try block throws on this page with this feed
RenderThrows ==
  \/ feedFile.json = "null"
  \/ feedFile.leaderboard.kind = "null" /\ "leaderboard-list" \in page
  \/ feedFile.scoringRules.kind = "null" /\ "scoring-rules" \in page
  \/ feedFile.playerActivity.kind = "null" /\ "player-activity" \in page

\* rendering the section of this list throws
SectionThrows(id) ==
  \/ id = "leaderboard-list" /\ feedFile.leaderboard.kind = "null"
  \/ id = "scoring-rules" /\ feedFile.scoringRules.kind = "null"
  \/ id = "player-activity" /\ feedFile.playerActivity.kind = "null"

(***************************************************************************)
(* C1.  On a page with a greeting element, renderGreeting shows "Welcome   *)
(* to the party, <name>!" and returns <name> exactly when the URL's token  *)
(* is a key of the registry mapped to <name>; for every other token the    *)
(* greeting is hidden with empty text and null is returned.                *)
(***************************************************************************)
C1_GreetingIffRegisteredToken ==
  GreetingRendered =>
    IF UrlToken # None /\ The(UrlToken) \in DOMAIN guestTokens
    THEN /\ greeting = [hidden |-> FALSE, text |-> WelcomeText(guestTokens[The(UrlToken)])]
         /\ highlightedName = Some(guestTokens[The(UrlToken)])
    ELSE /\ greeting = [hidden |-> TRUE, text |-> <<>>]
         /\ highlightedName = None

(***************************************************************************)
(* C2.  Whatever the value of the guest/token/code/ticket parameter, init  *)
(* raises no exception; and when the token is no key of the registry the   *)
(* greeting is hidden and the feed is still fetched and rendered.          *)
(***************************************************************************)
C2_InvalidTokenIsSilent ==
  /\ pc # "rejected"
  /\ (tokensReq \in {"fulfilled", "rejected"}
        /\ (UrlToken = None \/ The(UrlToken) \notin DOMAIN guestTokens))
       => greeting.hidden /\ feedReq # "idle"

(***************************************************************************)
(* C3.  When the feed fetch fails, init does not reject and every one of   *)
(* the six lists that exists on the page holds exactly one error           *)
(* placeholder and no data row.                                            *)
(***************************************************************************)
C3_FeedFailureShowsErrors ==
  feedReq = "rejected" =>
    /\ pc = "done"
    /\ \A id \in ErrorLists \cap page : OnlyErrorPlaceholder(id)

C3_Witness ==
  /\ feedReq = "rejected"
  /\ page = PlaysPage
  /\ OnlyErrorPlaceholder("all-plays-list")

(***************************************************************************)
(* C4, as the spec states it.  When the feed loads but rendering one       *)
(* section throws, only that section's list shows an error message: a list *)
(* whose own section did not throw holds no error placeholder.             *)
(***************************************************************************)
C4_OnlyFailedSectionReplaced ==
  (FeedRendered /\ feedFile.json = "object") =>
    \A id \in ListIds \cap page : HoldsError(id) => SectionThrows(id)

(***************************************************************************)
(* C4, amended.  A failure while rendering the feed is caught once for the *)
(* whole page: init does not reject, and every one of the six lists that   *)
(* exists on the page holds exactly its error placeholder, the lists that  *)
(* had already been rendered included.                                     *)
(***************************************************************************)
C4_RenderFailureReplacesEveryList ==
  (feedReq = "fulfilled" /\ RenderThrows) =>
    /\ pc = "done"
    /\ \A id \in ErrorLists \cap page : OnlyErrorPlaceholder(id)

C4_Witness ==
  /\ FeedRendered
  /\ page = HomePage
  /\ feedFile.json = "object"
  /\ feedFile.leaderboard.kind = "array" /\ feedFile.leaderboard.items # <<>>
  /\ feedFile.playerActivity.kind = "null"
  /\ OnlyErrorPlaceholder("leaderboard-list")

(***************************************************************************)
(* C5.  When the token fetch fails, init does not reject, continues with   *)
(* an empty registry, hides the greeting, applies no highlight and still   *)
(* requests the feed.                                                      *)
(***************************************************************************)
C5_TokenFailureDoesNotBlock ==
  tokensReq = "rejected" =>
    /\ pc # "rejected"
    /\ guestTokens = <<>>
    /\ greeting.hidden
    /\ highlightedName = None
    /\ feedReq # "idle"

(***************************************************************************)
(* C6, as the spec states it.  Both requests are issued before either      *)
(* response is awaited: while init awaits the token response the feed      *)
(* request is already under way.                                           *)
(***************************************************************************)
C6_FetchesIssuedTogether == pc = "awaitTokens" => feedReq = "pending"

(***************************************************************************)
(* C6, amended.  The two fetches run one after the other: the feed request *)
(* is issued only once the token request has settled, and no list is       *)
(* written before both requests have settled.                              *)
(***************************************************************************)
C6_FeedAfterTokens ==
  /\ feedReq # "idle" => tokensReq \in {"fulfilled", "rejected"}
  /\ dom # EmptyLists =>
       /\ tokensReq \in {"fulfilled", "rejected"}
       /\ feedReq \in {"fulfilled", "rejected"}

C6_Witness == pc = "awaitFeed" /\ tokensReq = "fulfilled" /\ feedReq = "pending"

(***************************************************************************)
(* C7.  The token used is the trimmed value of the earliest present one of *)
(* guest, token, code, ticket; there is no token when none is present or   *)
(* the chosen value is empty after trimming.  The value of a parameter is  *)
(* what URLSearchParams gives for it.                                      *)
(***************************************************************************)
EarliestValue ==
  IF search["guest"] # None THEN ParamsGet(search, "guest")
  ELSE IF search["token"] # None THEN ParamsGet(search, "token")
  ELSE IF search["code"] # None THEN ParamsGet(search, "code")
  ELSE ParamsGet(search, "ticket")

C7_EarliestParameterTrimmed ==
  (tokensReq \in {"fulfilled", "rejected"} /\ "guest-greeting" \in page) =>
    /\ ~getGuestTokenFromUrl(search).threw
    /\ UrlToken = IF EarliestValue = None \/ Trim(The(EarliestValue)) = <<>>
                  THEN None
                  ELSE Some(Trim(The(EarliestValue)))

(***************************************************************************)
(* C8.  For pairs with distinct non-empty tokens and non-empty names, the  *)
(* array form, the mapping form and the wrapped form of the token file     *)
(* normalize to one and the same map, which takes each token to its name.  *)
(***************************************************************************)
ValidPairs(entries) ==
  /\ DistinctTokens(entries)
  /\ \A i \in 1..Len(entries) : entries[i].token # <<>> /\ Trim(entries[i].name) # <<>>

C8_ShapesNormalizeAlike ==
  (tokensReq = "fulfilled" /\ ValidPairs(tokensFile.entries)
     /\ tokensFile.shape \in {"array", "mapping", "wrapped"}) =>
    /\ \A shape \in {"array", "mapping", "wrapped"} :
         normalizeGuestTokens(TokenFile(shape, tokensFile.entries)) = guestTokens
    /\ DOMAIN guestTokens = {tokensFile.entries[i].token : i \in 1..Len(tokensFile.entries)}
    /\ \A i \in 1..Len(tokensFile.entries) :
         guestTokens[tokensFile.entries[i].token] = tokensFile.entries[i].name

(***************************************************************************)
(* C9.  In every view a row for player P is highlighted exactly when a     *)
(* highlighted name H is set and fold(P) = fold(H).  Fold is written here  *)
(* code point by code point: an accented letter is its base letter, a      *)
(* combining mark is nothing, a capital is its small letter; the result is *)
(* trimmed.                                                                *)
(***************************************************************************)
FoldChar(c) ==
  CASE c \in {233, 201} -> <<101>>
    [] c \in 768..879 -> <<>>
    [] c = 160 -> <<32>>
    [] c \in 65..90 -> <<c + 32>>
    [] OTHER -> <<c>>

RECURSIVE FoldAll(_)
FoldAll(s) == IF s = <<>> THEN <<>> ELSE FoldChar(Head(s)) \o FoldAll(Tail(s))

Fold(s) == Trim(FoldAll(s))

ShouldHighlight(player) ==
  highlightedName # None /\ Fold(player) = Fold(The(highlightedName))

\* the rows that name a player, over all lists: <<player, highlighted>>
PlayerRows ==
  UNION {
    UNION {
      CASE dom[id][i].kind \in {"player", "card"} ->
             {<<dom[id][i].player, dom[id][i].highlight>>}
        [] dom[id][i].kind = "event" ->
             {<<dom[id][i].awards[k].player, dom[id][i].awards[k].highlight>> :
                k \in 1..Len(dom[id][i].awards)}
        [] dom[id][i].kind = "play" ->
             {<<dom[id][i].results[k].player, dom[id][i].results[k].highlight>> :
                k \in 1..Len(dom[id][i].results)}
        [] OTHER -> {} : i \in 1..Len(dom[id])} : id \in ListIds}

RowsOf(id, kind) == {i \in 1..Len(dom[id]) : dom[id][i].kind = kind}

C9_HighlightIffFoldedNamesMatch ==
  \A row \in PlayerRows : row[2] <=> ShouldHighlight(row[1])

C9_Witness ==
  /\ highlightedName = Some(Name.jose)
  /\ \E i \in RowsOf("leaderboard-list", "player") :
       dom["leaderboard-list"][i].player = Name.Jose /\ dom["leaderboard-list"][i].highlight
  /\ \E i \in RowsOf("player-activity", "card") :
       dom["player-activity"][i].player = Name.Jose /\ dom["player-activity"][i].highlight
  /\ \E i \in RowsOf("player-activity", "card") :
       dom["player-activity"][i].player = Name.Sam /\ ~dom["player-activity"][i].highlight

(***************************************************************************)
(* C10.  In a page load where the URL carries no token, the token is no    *)
(* key of the registry, or the registry could not be fetched, the greeting *)
(* is hidden and no row of any section is highlighted.                     *)
(***************************************************************************)
C10_OnlyValidTokensGreetAndHighlight ==
  (tokensReq \in {"fulfilled", "rejected"}
     /\ (UrlToken = None \/ The(UrlToken) \notin DOMAIN guestTokens
           \/ tokensReq = "rejected")) =>
    /\ greeting.hidden
    /\ \A row \in PlayerRows : ~row[2]

(***************************************************************************)
(* Avatars: the candidates a name has, stated from its four variants.      *)
(***************************************************************************)
\* the variants of a name, in the order they are tried
Variants(name) ==
  <<name, encodeURIComponent(name), Underscore(name), Underscore(normalizeName(name))>>

\* the variants that are kept: not empty, and no earlier one equal to it but for case
KeptVariants(name) ==
  {j \in 1..4 : /\ Variants(name)[j] # <<>>
                /\ \A i \in 1..(j - 1) :
                     toLowerCase(Variants(name)[i]) # toLowerCase(Variants(name)[j])}

\* the k-th kept variant
KeptAt(name, k) ==
  Variants(name)[CHOOSE j \in KeptVariants(name) :
                   Cardinality({i \in KeptVariants(name) : i <= j}) = k]

CandidateCount(name) == 4 * Cardinality(KeptVariants(name))

\* the k-th candidate, k from 1: variants outermost, png, jpg, jpeg, webp innermost
CandidateAt(name, k) ==
  [base |-> KeptAt(name, ((k - 1) \div 4) + 1),
   ext |-> <<"png", "jpg", "jpeg", "webp">>[((k - 1) % 4) + 1]]

\* the image of row i has requested the first candidates of `name`, one per error event
\* and one at the start, and is hidden only when all of them have failed
ProbesInOrder(img, name) ==
  /\ Len(img.requests) <= CandidateCount(name)
  /\ \A k \in 1..Len(img.requests) : img.requests[k] = CandidateAt(name, k)
  /\ IF img.hidden
     THEN img.errors = CandidateCount(name) /\ Len(img.requests) = CandidateCount(name)
     ELSE /\ Len(img.requests) = img.errors + 1
          /\ img.src = Some(CandidateAt(name, Len(img.requests)))

AvatarOf(i) == dom["leaderboard-list"][i].avatar
PlayerOf(i) == dom["leaderboard-list"][i].player

\* C11 as stated: for a non-empty player name the probes are the candidates of the raw
\* name (raw, URL-encoded, underscored, ASCII-folded, duplicates removed, each with png,
\* jpg, jpeg, webp), one more per error, none skipped or repeated, and the avatar is
\* hidden only after the last one failed.
C11_ProbesFollowRawName ==
  \A i \in AvatarRows :
    (AvatarOf(i).present /\ PlayerOf(i) # <<>>) => ProbesInOrder(AvatarOf(i), PlayerOf(i))

\* C11 amended: for a player name that is not empty after trimming, the probes are the
\* candidates of the trimmed name, in that fixed order, one more per error event, none
\* skipped or repeated, and the avatar is hidden only after the last one failed.
C11_ProbesFollowTrimmedName ==
  \A i \in AvatarRows :
    (AvatarOf(i).present /\ Trim(PlayerOf(i)) # <<>>)
      => ProbesInOrder(AvatarOf(i), Trim(PlayerOf(i)))

\* a name with all four variants has failed on its first six candidates
C11_Witness ==
  \E i \in AvatarRows :
    /\ PlayerOf(i) = Name.JoseLee
    /\ CandidateCount(Trim(PlayerOf(i))) = 16
    /\ AvatarOf(i).errors = 6
    /\ AvatarOf(i).src = Some([base |-> encodeURIComponent(Name.JoseLee), ext |-> "jpeg"])

\* what C12 says of one image and its player name
SilentAvatar(img, name) ==
  LET n == CandidateCount(Trim(name))
  IN  /\ n <= 16
      /\ img.errors <= n
      /\ img.load # "failed"
      /\ (n = 0 \/ img.errors = n)
           => /\ img.hidden
              /\ img.wrapper => img.wrapperHidden
              /\ img.src = None
              /\ ~img.handler
              /\ img.load = "none"
              /\ Len(img.requests) = n
      /\ (n > 0 /\ img.errors < n) => ~img.hidden /\ img.handler

\* C12: with N candidates (N <= 16), after exactly N error events the image and its
\* wrapper are hidden, src is removed, the handler is unregistered and nothing more is
\* requested; an image that has loaded never changes again; an empty name hides the
\* avatar at once without a request; and rendering never fails because of an avatar.
C12_ProbingEndsSilently ==
  /\ [](\A i \in AvatarRows : AvatarOf(i).present => SilentAvatar(AvatarOf(i), PlayerOf(i)))
  /\ [](feedReq = "fulfilled" =>
          pc = "done" /\ \A id \in ListIds : ~HoldsError(id))
  /\ [][\A i \in AvatarRows :
          AvatarOf(i).load = "loaded" =>
            dom'["leaderboard-list"][i].avatar = AvatarOf(i)]_vars

\* all sixteen candidates of a name have failed: the avatar is hidden for good
C12_Witness ==
  \E i \in AvatarRows :
    /\ AvatarOf(i).errors = 16
    /\ AvatarOf(i).hidden /\ AvatarOf(i).wrapperHidden
    /\ AvatarOf(i).src = None /\ ~AvatarOf(i).handler

\* the numbers of the awards of an event row that are shown
ShownAwards(row) == {i \in 1..Len(row.awards) : ~row.awards[i].collapsed}

\* C13: called with allowExpand and a numeric awardPreviewLimit n, an event with m awards
\* that nobody has expanded shows exactly its first min(max(n, 0), m) awards; its button is
\* visible iff m > max(n, 0) and then reads "Show k more" with k = m - max(n, 0).  Without
\* allowExpand no award is collapsed and the button is hidden.
C13_BoundedAwardPreview ==
  (pc = "done" /\ call.fn = "renderEvents") =>
    \A j \in 1..Len(call.events) :
      LET row == dom["events-timeline"][j]
          m == Len(call.events[j].awards)
          n == call.options.awardPreviewLimit
          p == IF The(n) > 0 THEN The(n) ELSE 0
      IN  /\ Len(row.awards) = m
          /\ (call.options.allowExpand /\ n # None /\ ~row.expanded) =>
               /\ ShownAwards(row) = 1..(IF p < m THEN p ELSE m)
               /\ ~row.expandHidden <=> m > p
               /\ m > p => row.label = [text |-> "Show more", count |-> m - p]
          /\ ~call.options.allowExpand =>
               ShownAwards(row) = 1..m /\ row.expandHidden

\* two events of four awards rendered with a preview of one, each showing its first
\* award and "Show 3 more"
C13_Witness ==
  /\ pc = "done" /\ call.fn = "renderEvents"
  /\ call.options.allowExpand /\ call.options.awardPreviewLimit = Some(1)
  /\ Len(dom["events-timeline"]) = 2
  /\ \A j \in 1..2 : /\ Len(dom["events-timeline"][j].awards) = 4
                     /\ ShownAwards(dom["events-timeline"][j]) = {1}
                     /\ dom["events-timeline"][j].label.count = 3

\* the target a navigation link is meant to have for a feed of this mode
NavTarget(id, mode) ==
  CASE id = "view-all-plays" ->
         IF mode = "unranked" THEN "./plays-unranked.html" ELSE "./plays.html"
    [] id = "view-all-events" ->
         IF mode = "unranked" THEN "./points-unranked.html" ELSE "./points.html"
    [] OTHER -> StaticNav[id].base

\* C14: after a successful init every navigation link of the page is its target followed
\* by the page's query string, appended exactly once, and the plays and points targets
\* are the -unranked pages iff the feed's mode is "unranked".
C14_NavigationKeepsQuery ==
  (FeedRendered /\ ~RenderThrows) =>
    \A id \in NavIds \cap page :
      /\ nav[id].base = NavTarget(id, feedFile.mode)
      /\ nav[id].suffixes = 1

\* the home page of an unranked feed, opened with a guest token, after a successful init
C14_Witness ==
  /\ FeedRendered /\ ~RenderThrows
  /\ search # NoSearch
  /\ feedFile.mode = "unranked"
  /\ {"view-all-plays", "view-all-events", "switch-view"} \subseteq page
  /\ nav["view-all-plays"].base = "./plays-unranked.html"
  /\ nav["switch-view"].suffixes = 1

\* the play list of the feed: allPlays when the feed has it, else recentPlays, else none
FeedPlayList ==
  IF feedFile.allPlays.kind = "array" THEN feedFile.allPlays.items
  ELSE IF feedFile.recentPlays.kind = "array" THEN feedFile.recentPlays.items
  ELSE <<>>

\* the games of the plays a list shows, in the order of the list
GamesShown(id) ==
  IF dom[id] # <<>> /\ dom[id][1].kind = "play"
  THEN [i \in 1..Len(dom[id]) |-> dom[id][i].game]
  ELSE <<>>

\* C15: #recent-plays holds exactly the first min(3, n) plays of the feed's play list, in
\* feed order, and #all-plays-list, where the page has it, holds all n.
C15_RecentPlaysAreFirstThree ==
  FeedRendered =>
    LET n == Len(FeedPlayList)
    IN  /\ "recent-plays" \in page =>
             GamesShown("recent-plays")
               = [i \in 1..(IF n < 3 THEN n ELSE 3) |-> FeedPlayList[i].game]
        /\ "all-plays-list" \in page =>
             GamesShown("all-plays-list") = [i \in 1..n |-> FeedPlayList[i].game]

\* a feed of four plays, carried as recentPlays only, on the home page: three are shown
C15_Witness ==
  /\ FeedRendered
  /\ "recent-plays" \in page
  /\ feedFile.allPlays.kind # "array"
  /\ Len(FeedPlayList) = 4
  /\ GamesShown("recent-plays") = <<"Heat", "Azul", "Catan">>

RECURSIVE SumOver(_, _)
SumOver(f, S) ==
  IF S = {} THEN 0
  ELSE LET x == CHOOSE y \in S : TRUE IN f[x] + SumOver(f, S \ {x})

\* the award entries of a point log that are not collapsed
VisibleAwards(id) ==
  LET events == {j \in 1..Len(dom[id]) : dom[id][j].kind = "event"}
  IN  SumOver([j \in events |-> Cardinality(ShownAwards(dom[id][j]))], events)

NothingExpanded(id) ==
  \A j \in 1..Len(dom[id]) : dom[id][j].kind = "event" => ~dom[id][j].expanded

\* C16: before the user expands anything, at most five award entries are visible in
\* #events-timeline, whatever the feed holds.
C16_AtMostFiveAwardsVisible ==
  (FeedRendered /\ "events-timeline" \in page /\ NothingExpanded("events-timeline"))
    => VisibleAwards("events-timeline") <= 5

\* the entries of playerActivity that have plays or games
Active ==
  {i \in 1..Len(feedFile.playerActivity.items) :
     \/ feedFile.playerActivity.items[i].totalPlays > 0
     \/ Len(feedFile.playerActivity.items[i].games) > 0}

\* the k-th of them in feed order
ActiveAt(k) ==
  feedFile.playerActivity.items[
    CHOOSE i \in Active : Cardinality({h \in Active : h <= i}) = k]

\* C17: renderPlayerActivity renders a card for an entry iff its totalPlays > 0 or it has
\* games, in feed order; one placeholder and no card when no entry qualifies; a card lists
\* at most the first three games and has a podium row only when the podium counts sum
\* to more than zero.
C17_CardsForActivePlayersOnly ==
  (FeedRendered /\ "player-activity" \in page) =>
    LET cards == dom["player-activity"]
    IN  IF Active = {}
        THEN Len(cards) = 1 /\ cards[1].kind = "empty"
        ELSE /\ Len(cards) = Cardinality(Active)
             /\ \A k \in 1..Len(cards) :
                  LET entry == ActiveAt(k)
                      shown == IF Len(entry.games) < 3 THEN Len(entry.games) ELSE 3
                  IN  /\ cards[k].kind = "card"
                      /\ cards[k].player = entry.player
                      /\ cards[k].totalPlays = entry.totalPlays
                      /\ cards[k].games = [g \in 1..shown |-> entry.games[g]]
                      /\ cards[k].podiums # None
                           <=> entry.podiums[1] + entry.podiums[2] + entry.podiums[3] > 0

\* three entries, the middle one idle: two cards, the first with games but no plays and
\* its four games cut to three, the second with a podium row
C17_Witness ==
  /\ FeedRendered /\ "player-activity" \in page
  /\ Len(feedFile.playerActivity.items) = 3
  /\ Active = {1, 3}
  /\ feedFile.playerActivity.items[1].totalPlays = 0
  /\ Len(dom["player-activity"]) = 2
  /\ Len(dom["player-activity"][1].games) = 3
  /\ dom["player-activity"][1].podiums = None
  /\ dom["player-activity"][2].player = Roster[3]
  /\ dom["player-activity"][2].podiums # None

\* the label the claim gives a placement
PlacementText(placement) ==
  IF placement = 1 THEN "1st place"
  ELSE IF placement = 2 THEN "2nd place"
  ELSE IF placement = 3 THEN "3rd place"
  ELSE "Participated"

\* C18: in a rendered play a result shows "+p" for the points p the feed gives it, so
\* that players tied for a placement all show its full points; a result without
\* placement and points shows no points and "Participated"; the label is "1st place",
\* "2nd place", "3rd place" exactly for the placements 1, 2, 3.
C18_ResultsShowPlacementAndPoints ==
  FeedRendered =>
    \A id \in {"recent-plays", "all-plays-list"} \cap page :
      \A k \in 1..Len(GamesShown(id)) :
        LET results == FeedPlayList[k].results
            rows == dom[id][k].results
        IN  /\ Len(rows) = Len(results)
            /\ \A i \in 1..Len(results) :
                 /\ rows[i].player = results[i].player
                 /\ rows[i].label = PlacementText(results[i].placement)
                 /\ rows[i].label \in {"1st place", "2nd place", "3rd place"}
                      <=> results[i].placement \in 1..3
                 /\ results[i].points > 0 => rows[i].points = Some(results[i].points)
                 /\ (results[i].placement = 0 /\ results[i].points = 0)
                      => rows[i].points = None /\ rows[i].label = "Participated"
                 /\ \A j \in 1..Len(results) :
                      (results[j].placement = results[i].placement
                         /\ results[j].points = results[i].points)
                        => rows[j].points = rows[i].points

\* two players tied for first at 10 points each and a third without placement
C18_Witness ==
  /\ FeedRendered /\ "recent-plays" \in page
  /\ Len(GamesShown("recent-plays")) = 1
  /\ LET rows == dom["recent-plays"][1].results
     IN  /\ Len(rows) = 3
         /\ rows[1].label = "1st place" /\ rows[1].points = Some(10)
         /\ rows[2].label = "1st place" /\ rows[2].points = Some(10)
         /\ rows[3].label = "Participated" /\ rows[3].points = None

\* the ranked awards of the log that went to a player
RankedAwardsOf(player) ==
  {i \in 1..Len(call.awards) : call.awards[i].ranked /\ call.awards[i].player = player}

\* C19: the leaderboard lists each player with a ranked award once, with the sum of the
\* player's ranked award points, points non-increasing over adjacent entries, equal points
\* in the order of the names, ranks 1..n in list order; and the renderer shows these rows
\* in feed order with the feed's rank and points.
C19_LeaderboardSortedAndShownAsIs ==
  (pc # "unbuilt") =>
    LET board == feedFile.leaderboard.items
        rows == dom["leaderboard-list"]
    IN  /\ \A i, j \in 1..Len(board) : board[i].player = board[j].player => i = j
        /\ {board[i].player : i \in 1..Len(board)}
             = {call.awards[i].player : i \in {k \in 1..Len(call.awards) :
                                                 call.awards[k].ranked}}
        /\ \A i \in 1..Len(board) :
             /\ board[i].rank = i
             /\ board[i].points
                  = SumOver([k \in RankedAwardsOf(board[i].player) |-> call.awards[k].points],
                            RankedAwardsOf(board[i].player))
        /\ \A i \in 1..(Len(board) - 1) :
             /\ board[i].points >= board[i + 1].points
             /\ board[i].points = board[i + 1].points
                  => NameBefore(board[i].player, board[i + 1].player)
        /\ FeedRendered =>
             IF board = <<>> THEN Len(rows) = 1 /\ rows[1].kind = "empty"
             ELSE /\ Len(rows) = Len(board)
                  /\ \A i \in 1..Len(board) :
                       /\ rows[i].rank = board[i].rank
                       /\ rows[i].player = board[i].player
                       /\ rows[i].points = board[i].points

\* the awards Jess 5, Sam 5, Jess 3: Jess is shown first with 8, Sam second with 5
C19_Witness ==
  /\ FeedRendered
  /\ Len(call.awards) = 3
  /\ \A i \in 1..3 : call.awards[i].ranked
  /\ <<call.awards[1].player, call.awards[2].player, call.awards[3].player>>
       = <<Name.Jess, Name.Sam, Name.Jess>>
  /\ <<call.awards[1].points, call.awards[2].points, call.awards[3].points>> = <<5, 5, 3>>
  /\ Len(dom["leaderboard-list"]) = 2
  /\ LET rows == dom["leaderboard-list"]
     IN  /\ rows[1].rank = 1 /\ rows[1].player = Name.Jess /\ rows[1].points = 8
         /\ rows[2].rank = 2 /\ rows[2].player = Name.Sam /\ rows[2].points = 5

\* C20: for every player of the leaderboard the points of the player's breakdown entries
\* add up to the player's total points.
C20_BreakdownSumsToTotal ==
  (pc # "unbuilt") =>
    \A i \in 1..Len(feedFile.leaderboard.items) :
      LET row == feedFile.leaderboard.items[i]
      IN  SumOver([k \in 1..Len(row.breakdown) |-> row.breakdown[k].points],
                  1..Len(row.breakdown)) = row.points

\* a player with two awards for one reason and one for another: two entries, 8 and 5
C20_Witness ==
  /\ pc # "unbuilt"
  /\ \E i \in 1..Len(feedFile.leaderboard.items) :
       LET row == feedFile.leaderboard.items[i]
       IN  /\ row.points = 13
           /\ Len(row.breakdown) = 2
           /\ row.breakdown[1].count = 2 /\ row.breakdown[1].points = 8
           /\ row.breakdown[2].count = 1 /\ row.breakdown[2].points = 5

\* the awards a feed shows in its point log
FeedAwards(feed) ==
  UNION {{feed.allEvents[j].awards[i] : i \in 1..Len(feed.allEvents[j].awards)} :
           j \in 1..Len(feed.allEvents)}

FeedPlays(feed) == {feed.allPlays[i] : i \in 1..Len(feed.allPlays)}

\* the players of the records of one mode that carry points
ScoringPlayers(ranked) ==
  {store.awards[i].player : i \in {k \in 1..Len(store.awards) :
                                     store.awards[k].ranked = ranked}}

\* a feed without its time stamp
Undated(feed) == [feed EXCEPT !.lastUpdated = 0]

PreviewOf(m) ==
  IF call.options.allowExpand /\ call.options.awardPreviewLimit # None
  THEN (IF The(call.options.awardPreviewLimit) > 0
        THEN The(call.options.awardPreviewLimit) ELSE 0)
  ELSE m

\* the events rendered by the call whose awards do not all fit the preview
WithHiddenAwards ==
  IF pc = "done" /\ call.fn = "renderEvents"
  THEN {j \in 1..Len(call.events) :
          /\ call.options.allowExpand
          /\ Len(call.events[j].awards) > PreviewOf(Len(call.events[j].awards))}
  ELSE {}

\* C22: for each event with hidden awards, after any clicks on its button: the expanded
\* flag is true exactly when no award beyond the preview is collapsed and false exactly
\* when all of them are; the label is "Hide awards" exactly when expanded; awards within
\* the preview are never collapsed; two clicks in a row restore the state; and a click
\* changes no other event.
C22_ToggleKeepsFlagAndClassesInStep ==
  /\ [](\A j \in WithHiddenAwards :
          LET row == dom["events-timeline"][j]
              beyond == {i \in 1..Len(row.awards) : i > PreviewOf(Len(row.awards))}
          IN  /\ ~row.expandHidden
              /\ row.expanded <=> \A i \in beyond : ~row.awards[i].collapsed
              /\ ~row.expanded <=> \A i \in beyond : row.awards[i].collapsed
              /\ row.label.text = "Hide awards" <=> row.expanded
              /\ \A i \in 1..Len(row.awards) \ beyond : ~row.awards[i].collapsed
              /\ ToggleExpanded(ToggleExpanded(row)) = row
              /\ ToggleExpanded(row) # row)
  /\ [][(pc = "done" /\ pc' = "done") =>
          Cardinality({j \in 1..Len(dom["events-timeline"]) :
                         dom'["events-timeline"][j] # dom["events-timeline"][j]}) <= 1]_vars

\* two events with hidden awards, the first expanded by a click, the second untouched
C22_Witness ==
  /\ WithHiddenAwards = {1, 2}
  /\ dom["events-timeline"][1].expanded
  /\ dom["events-timeline"][1].label.text = "Hide awards"
  /\ \A i \in 1..Len(dom["events-timeline"][1].awards) :
       ~dom["events-timeline"][1].awards[i].collapsed
  /\ ~dom["events-timeline"][2].expanded
  /\ \E i \in 1..Len(dom["events-timeline"][2].awards) :
       dom["events-timeline"][2].awards[i].collapsed

\* the feed's full event list: allEvents, or recentEvents where the feed has no allEvents
FeedEventList ==
  IF feedFile.allEvents.kind = "array" THEN feedFile.allEvents.items
  ELSE IF feedFile.recentEvents.kind = "array" THEN feedFile.recentEvents.items
  ELSE <<>>

\* the number of entries of a list that are not its empty-list placeholder
EntriesShown(id, kind) == Cardinality({i \in 1..Len(dom[id]) : dom[id][i].kind = kind})

\* C23: after a successful init of the home view, #view-all-events is visible when
\* #events-timeline shows fewer events than the feed's full event list holds and hidden
\* when it shows them all; likewise #view-all-plays for #recent-plays and the play list.
C23_TruncatedListHasLink ==
  (FeedRendered /\ ~RenderThrows /\ page = HomePage) =>
    /\ nav["view-all-events"].display
         = IF EntriesShown("events-timeline", "event") < Len(FeedEventList)
           THEN "inline-flex" ELSE "none"
    /\ nav["view-all-plays"].display
         = IF EntriesShown("recent-plays", "play") < Len(FeedPlayList)
           THEN "inline-flex" ELSE "none"

\* the greeting as renderGreeting leaves it with the registry init holds
SettledGreeting == renderGreeting(guestTokens, search, page, HiddenGreeting)

\* C24: the greeting element is untouched while the token request is unsettled; once the
\* feed request has been issued the token request has settled and renderGreeting has
\* completed, the element showing what it wrote; and no later step of init, a successful
\* render of the feed or handleError, changes the element's visibility or text.
C24_GreetingSettledBeforeFeed ==
  /\ [](/\ tokensReq \in {"idle", "pending"} => greeting = HiddenGreeting /\ feedReq = "idle"
        /\ feedReq # "idle" =>
             /\ tokensReq \in {"fulfilled", "rejected"}
             /\ ~SettledGreeting.threw
             /\ greeting = SettledGreeting.greeting)
  /\ [][feedReq # "idle" => greeting' = greeting]_vars

\* a guest is greeted, the feed request fails and handleError writes its placeholders: the
\* greeting still stands
C24_Witness ==
  /\ pc = "done"
  /\ feedReq = "rejected"
  /\ ~greeting.hidden
  /\ greeting.text = WelcomeText(Name.Sam)
  /\ OnlyErrorPlaceholder("leaderboard-list")

\* C25: however often and in whatever order renderLeaderboard, renderScoringRules,
\* renderEvents, renderPlays, renderPlayerActivity and handleError are called, each list
\* holds exactly what the last call that targets it writes into an empty list: no row of
\* an earlier call is left or repeated, and an error placeholder is never next to another
\* row.
C25_ListHoldsLastOutputOnly ==
  /\ dom = call.last
  /\ \A id \in ListIds : HoldsError(id) => Len(dom[id]) = 1

\* handleError has replaced the rows of the home page, and renderPlays has then replaced
\* the placeholder of #recent-plays by one play
C25_Witness ==
  /\ call.fn = "renderPlays"
  /\ call.targets = {"recent-plays"}
  /\ OnlyErrorPlaceholder("leaderboard-list")
  /\ OnlyErrorPlaceholder("events-timeline")
  /\ Len(dom["recent-plays"]) = 1
  /\ dom["recent-plays"][1].kind = "play"

\* C26: for every registry key k, a link whose parameter is the percent-encoding of k
\* resolves to k's name: once the token file has arrived and init has gone on, the
\* greeting welcomes the guest registered under k and that name is highlighted, also for
\* keys that contain + or %.
C26_EncodedKeyResolves ==
  (tokensReq = "fulfilled" /\ pc # "awaitTokens") =>
    /\ pc # "rejected"
    /\ greeting = [hidden |-> FALSE, text |-> WelcomeText(Name.Sam)]
    /\ highlightedName = Some(Name.Sam)

====
